---------------------------- MODULE Spec2Model ----------------------------
(***************************************************************************)
(* Model of the Innovex service-request server (src/server/server.js):     *)
(* the request CRUD handlers over the MongoDB collection, the in-memory    *)
(* SPOC token store with its expiry timers, the requireSpoc gate, the      *)
(* unlock endpoint and the Socket.IO room fan-out.                         *)
(*                                                                         *)
(* Every async handler is cut at its awaits: one action runs the handler   *)
(* from one await to the next (the database applies the pending operation, *)
(* then the continuation runs synchronously up to the next operation it    *)
(* issues or to the response).  Handlers of different requests interleave  *)
(* at those points, as they do on Node's event loop.                       *)
(***************************************************************************)
EXTENDS Integers, Sequences, FiniteSets, Bags, TLC

(***************************************************************************)
(* Bounds of the model.                                                    *)
(***************************************************************************)
MaxRequests == 2
MaxTokens == 1
MaxTicks == 3
MaxInflight == 2
MaxMutations == 2

(***************************************************************************)
(* Program constants.                                                      *)
(***************************************************************************)
\* unlock: generateSpocToken(60 * 15, ...)
UnlockTtlSeconds == 900
\* generateSpocToken: Date.now() + ttlSeconds * 1000
MsPerSecond == 1000
\* generateSpocToken: setTimeout(..., ttlSeconds * 1000 + 5000)
TimerMarginMs == 5000
\* const SPOC_PIN = process.env.SPOC_PIN || 'innovex25'
SPOC_PIN == <<"i", "n", "n", "o", "v", "e", "x", "2", "5">>

(***************************************************************************)
(* JavaScript values.  Strings that the code only compares or concatenates *)
(* are TLA+ strings; the unlock pin, which the code trims, is a sequence   *)
(* of one-character strings.                                               *)
(***************************************************************************)
\* the value of a body field or header that was not sent
Undefined == "<undefined>"
\* JavaScript null (teamId || null)
Null == "<null>"
\* a socket payload that is not a string (an object)
NonString == "<non-string>"
\* a socket payload that is an array holding one string
ArrayOf(x) == "[" \o x \o "]"
\* a pin that was not sent, and the spocId of a token issued for the PIN
UndefinedChars == <<"<undefined>">>
\* no x-spoc-token header / no spocToken body field (falsy)
NoToken == 0
\* an :id path parameter that is not a 24-character hex string
MalformedId == 0

Falsy(v) == v \in {Undefined, Null, ""}

\* typeof v !== 'string'
IsNonString(v) == v \in {NonString, ArrayOf("T1"), ArrayOf("S1")}

\* `${v}`: an array of one string reads as that string
TemplateString(v) ==
    CASE v = NonString -> "[object Object]"
      [] v = ArrayOf("T1") -> "T1"
      [] v = ArrayOf("S1") -> "S1"
      [] OTHER -> v

\* a pin used as it was sent: nothing counts as white space
NoWhiteSpace == {}

\* the characters String.prototype.trim removes
WhiteSpace == {" ", "\t"}

RECURSIVE TrimStart(_)
TrimStart(s) ==
    IF s # <<>> /\ Head(s) \in WhiteSpace THEN TrimStart(Tail(s)) ELSE s

RECURSIVE TrimEnd(_)
TrimEnd(s) ==
    IF s # <<>> /\ s[Len(s)] \in WhiteSpace
    THEN TrimEnd(SubSeq(s, 1, Len(s) - 1))
    ELSE s

\* String(pin).trim()
Trim(s) == TrimEnd(TrimStart(s))

(***************************************************************************)
(* State.                                                                  *)
(***************************************************************************)
VARIABLES
    config,       \* process.env and the file system, as read at startup
    startup,      \* where startServer is, with its i, backoffMs and options
    requestsCollection,  \* let requestsCollection = null
    connects,     \* every tryConnect that has settled, in order
    pages,        \* connection -> the page of the client that owns it
    now,          \* Date.now(), in milliseconds
    ticks,        \* how often the clock has advanced
    spocTokens,   \* const spocTokens = new Map(): token -> {expiresAt, spocId}
    timers,       \* pending setTimeout deletions: token -> due time
    issued,       \* every token generated so far -> its expiry instant
    store,        \* requestsCollection: the set of request documents
    nextId,       \* the next ObjectId the driver generates
    admitted,     \* how many PATCH and DELETE requests passed requireSpoc
    inflight,     \* handlers suspended at an await (a bag of their frames)
    connected,    \* the Socket.IO connections that are open
    rooms,        \* connection -> the rooms it has joined
    resp,         \* the HTTP response the last step sent (or none)
    published     \* the events the last step emitted

vars == <<config, startup, requestsCollection, connects, pages, now, ticks,
          spocTokens, timers, issued, store, nextId, admitted, inflight,
          connected, rooms, resp, published>>

processVars == <<config, startup, requestsCollection, connects>>
clientVars == <<pages>>

tokenVars == <<spocTokens, timers, issued>>
socketVars == <<connected, rooms>>
clockVars == <<now, ticks>>

(***************************************************************************)
(* Maps with a growing key set (a JavaScript Map).                         *)
(***************************************************************************)
EmptyMap == [k \in {} |-> 0]

MapSet(m, k, v) == [x \in DOMAIN m \cup {k} |-> IF x = k THEN v ELSE m[x]]

MapDelete(m, k) == [x \in DOMAIN m \ {k} |-> m[x]]

(***************************************************************************)
(* Inputs.                                                                 *)
(***************************************************************************)
Sockets == {"s1", "s2"}

Tokens == 1 .. MaxTokens

\* bodies of POST /api/requests
CreateBodies ==
    { [requester |-> "Al", category |-> "Tea", details |-> Undefined,
       location |-> "3F-212", quantity |-> "2", teamId |-> "T1",
       spocId |-> "S1", status |-> "done"],
      [requester |-> Undefined, category |-> "WiFi", details |-> "slow",
       location |-> "Lobby", quantity |-> Undefined, teamId |-> "T2",
       spocId |-> Null],
      [requester |-> Undefined, category |-> Undefined, details |-> Undefined,
       location |-> "Desk 4", quantity |-> Undefined, teamId |-> Undefined,
       spocId |-> Undefined],
      [requester |-> "Al", category |-> "Tea", details |-> Undefined,
       location |-> "", quantity |-> Undefined, teamId |-> "T1",
       spocId |-> "S1"],
      [requester |-> "Al", category |-> "Tea", details |-> Undefined,
       location |-> Undefined, quantity |-> Undefined, teamId |-> "T1",
       spocId |-> "S1"] }

\* bodies of PATCH /api/requests/:id
UpdateBodies ==
    { [status |-> "done"],
      [status |-> "archived", createdAt |-> -1, teamId |-> "T2",
       spocToken |-> 1] }

\* :id path parameters
IdParams == {MalformedId} \cup (1 .. MaxRequests)

\* x-spoc-token and x-spoc-pin headers
AuthHeaders ==
    [token : {NoToken} \cup Tokens, pin : {UndefinedChars}]
    \cup [token : {NoToken}, pin : {SPOC_PIN, <<"1", "2", "3", "4">>}]

UpdateRequests ==
    { [id |-> i, token |-> a.token, pin |-> a.pin, body |-> b] :
        i \in IdParams, a \in AuthHeaders, b \in UpdateBodies }

DeleteRequests ==
    { [id |-> i, token |-> a.token, pin |-> a.pin] :
        i \in IdParams, a \in AuthHeaders }

\* the pin field of POST /api/spoc/unlock
PinInputs ==
    { UndefinedChars, <<>>, SPOC_PIN, <<"S", "2">>, <<" ">>,
      <<" ", "S", "1">> }

\* payloads of the spoc:join, spoc:leave, team:join and team:leave signals
TeamPayloads == {"T1", "", NonString, ArrayOf("T1")}
SpocPayloads == {"S1", "", NonString, ArrayOf("S1")}

(***************************************************************************)
(* The environment of the process and what a database connection attempt   *)
(* may report.  Texts the code searches or cuts are sequences of pieces.   *)
(***************************************************************************)
\* process.env.MONGODB_URI || process.env.MONGO_URI || ''
RawUris ==
    { <<>>,
      <<"'", " ", "'">>,
      <<"http://", "db.example">>,
      <<"mongodb://", "db.example">>,
      <<" ", "\"", "mongodb+srv://", "db.example", "\"", " ">> }

\* process.env.DEBUG_MONGO_TLS, what exists at STATIC_DIR (nothing, a
\* directory without index.html, a built frontend) and process.env.NODE_ENV
Configs ==
    [rawUri : RawUris,
     debugMongoTls : {Undefined, "True"},
     staticDir : {"absent", "empty", "frontend"},
     nodeEnv : {Undefined, "production"}]

\* the environment of the server whose requests the workloads below follow
DefaultConfig ==
    [rawUri |-> <<"mongodb://", "db.example">>, debugMongoTls |-> Undefined,
     staticDir |-> "absent", nodeEnv |-> Undefined]

\* the messages of the errors client.connect() and the ping reject with
ConnectErrors ==
    { <<"connect", "ECONNREFUSED">>,
      <<"SSL", "routines", "tlsv1 alert", "internal error">>,
      <<"Tls", "handshake", "timed out">> }

\* how a tryConnect settles
Connected == [ok |-> TRUE, message |-> <<>>]
Failed(msg) == [ok |-> FALSE, message |-> msg]
ConnectOutcomes == {Connected} \cup {Failed(msg) : msg \in ConnectErrors}

(***************************************************************************)
(* Responses and events.                                                   *)
(***************************************************************************)
NoBody == [none |-> TRUE]
NullDoc == [null |-> TRUE]
NoHandler == [op |-> "none", req |-> NoBody, wrote |-> FALSE, wroteLate |-> FALSE]

Error(msg) == [error |-> msg]

\* a response, with the request it answers and what its handler did to the
\* collection
Response(op, code, body, h) ==
    [op |-> op, code |-> code, body |-> body, req |-> h.req,
     wrote |-> h.wrote, wroteLate |-> h.wroteLate]

\* io.emit(event, payload): every open connection
Emit(event, payload) ==
    [event |-> event, room |-> "*", payload |-> payload, to |-> connected]

\* io.to(room).emit(event, payload): the open connections that joined room
EmitTo(room, event, payload) ==
    [event |-> event, room |-> room, payload |-> payload,
     to |-> {s \in connected : room \in rooms[s]}]

\* `spoc:${spocId}` and `team:${teamId}`
SpocRoom(spocId) == "spoc:" \o TemplateString(spocId)
TeamRoom(teamId) == "team:" \o TemplateString(teamId)

\* the step sends no response and emits nothing
Quiet ==
    /\ resp' = Response("none", 0, NoBody, NoHandler)
    /\ published' = <<>>

\* the step leaves the handler of a request at an await: no response yet
Awaiting(op, h) ==
    /\ resp' = Response(op, 0, NoBody, h)
    /\ published' = <<>>

(***************************************************************************)
(* Browser pages.  Each connection belongs to one tab of the client, which *)
(* shows the SPOC page, the requester page or neither.                     *)
(***************************************************************************)
\* import { SPOCS, TEAMS } from '../data/spocs': the static mapping
SPOCS == {[id |-> "S1"]}
TEAMS == <<[id |-> "T1", spocId |-> "S1"]>>

\* a tab that shows no page: sessionStorage is empty, nothing was emitted,
\* the request list is empty, no event and no response is on its way
ClosedPage ==
    [view |-> "closed", token |-> NoToken, spoc |-> NullDoc, team |-> NullDoc,
     form |-> [teamId |-> ""], sendBuffer |-> <<>>, discarded |-> {},
     requests |-> <<>>, fetching |-> FALSE, http |-> <<>>, inbox |-> <<>>]

\* socket.on(event, handler): the events a page has a handler for
Handles(view, event) ==
    CASE view = "requester" ->
           event \in {"request:created", "request:updated", "request:deleted"}
      [] view = "spoc" ->
           event \in {"request:created:forSpoc", "request:created:forTeam",
                      "request:updated", "request:deleted"}
      [] OTHER -> FALSE

\* io.emit and io.to(room).emit send the events to the pages: those that
\* reach a handler of the page of s, in the order of their emits
Posted(events) ==
    [s \in Sockets |->
       LET mine == SelectSeq(events,
                             LAMBDA e : s \in e.to
                                        /\ Handles(pages[s].view, e.event))
       IN  [pages[s] EXCEPT
              !.inbox = @ \o [k \in 1 .. Len(mine) |->
                                [event |-> mine[k].event,
                                 payload |-> mine[k].payload]]]]

\* a server that is listening: its first connection attempt succeeded
Init ==
    /\ now = 0
    /\ ticks = 0
    /\ config = DefaultConfig
    /\ startup = [pc |-> "listening", i |-> 1, backoffMs |-> 2000,
                  options |-> "baseOptions", due |-> 0, waits |-> <<>>]
    /\ requestsCollection = "requests"
    /\ connects = <<[i |-> 1, options |-> "baseOptions", outcome |-> Connected]>>
    /\ pages = [s \in Sockets |-> ClosedPage]
    /\ spocTokens = EmptyMap
    /\ timers = EmptyMap
    /\ issued = EmptyMap
    /\ store = {}
    /\ nextId = 1
    /\ admitted = 0
    /\ inflight = EmptyBag
    /\ connected = {}
    /\ rooms = [s \in Sockets |-> {}]
    /\ resp = Response("none", 0, NoBody, NoHandler)
    /\ published = <<>>

(***************************************************************************)
(* Startup: the connection string, connectDB and connectDBWithRetry.       *)
(***************************************************************************)
\* String.prototype.toLowerCase and the i flag of a pattern, on the pieces
\* that occur
ToLowerCase(w) ==
    CASE w = "True" -> "true"
      [] w = "TLS" -> "tls"
      [] w = "Tls" -> "tls"
      [] w = "SSL" -> "ssl"
      [] w = "ERR_SSL" -> "err_ssl"
      [] OTHER -> w

\* (process.env.DEBUG_MONGO_TLS || 'false').toLowerCase() === 'true'
DEBUG_MONGO_TLS ==
    ToLowerCase(IF Falsy(config.debugMongoTls) THEN "false"
                ELSE config.debugMongoTls) = "true"

Quotes == {"\"", "'"}

\* replace(/^\s*["']?/, ''): the leading white space and one quote after it
StripLeading(s) ==
    IF TrimStart(s) # <<>> /\ Head(TrimStart(s)) \in Quotes
    THEN Tail(TrimStart(s))
    ELSE TrimStart(s)

\* replace(/["']?\s*$/, ''): the trailing white space and one quote before it
StripTrailing(s) ==
    IF TrimEnd(s) # <<>> /\ TrimEnd(s)[Len(TrimEnd(s))] \in Quotes
    THEN SubSeq(TrimEnd(s), 1, Len(TrimEnd(s)) - 1)
    ELSE TrimEnd(s)

\* rawUri.replace(...).replace(...).trim()
SanitizeUri(raw) == Trim(StripTrailing(StripLeading(raw)))

MONGODB_URI == SanitizeUri(config.rawUri)

\* if (!MONGODB_URI)
UriEmpty == MONGODB_URI = <<>>

\* MONGODB_URI.startsWith('mongodb://') || startsWith('mongodb+srv://')
UriSchemeKnown ==
    MONGODB_URI # <<>> /\ Head(MONGODB_URI) \in {"mongodb://", "mongodb+srv://"}

\* connectDBWithRetry({ attempts: 3, backoffMs: 2000 })
Attempts == 3
BackoffMs == 2000

\* a wait as long as the one before it
SameBackoff(backoffMs) == backoffMs

\* backoffMs *= 2
NextBackoff(backoffMs) == backoffMs * 2

\* every failure taken for a TLS failure
IsAnyError(msg) == TRUE

\* /TLS|tls|SSL|ssl|tlsv1 alert|ERR_SSL|ssl3_read_bytes/i.test(msg)
IsTLSError(msg) ==
    \E k \in 1 .. Len(msg) :
        ToLowerCase(msg[k]) \in
            {ToLowerCase(p) : p \in {"TLS", "tls", "SSL", "ssl", "tlsv1 alert",
                                     "ERR_SSL", "ssl3_read_bytes"}}

\* the options of the first tryConnect of a connectDB call
FirstOptions == IF DEBUG_MONGO_TLS THEN "fallbackOptions" ELSE "baseOptions"

\* server.listen has been called
Listening == startup.pc = "listening"

\* the process as it begins to load server.js
ProcessStart ==
    /\ now = 0
    /\ ticks = 0
    /\ config \in Configs
    /\ startup = [pc |-> "load", i |-> 0, backoffMs |-> 0, options |-> "none",
                  due |-> 0, waits |-> <<>>]
    /\ requestsCollection = Null
    /\ connects = <<>>
    /\ pages = [s \in Sockets |-> ClosedPage]
    /\ spocTokens = EmptyMap
    /\ timers = EmptyMap
    /\ issued = EmptyMap
    /\ store = {}
    /\ nextId = 1
    /\ admitted = 0
    /\ inflight = EmptyBag
    /\ connected = {}
    /\ rooms = [s \in Sockets |-> {}]
    /\ resp = Response("none", 0, NoBody, NoHandler)
    /\ published = <<>>

\* server.js runs to the first await of startServer: the checks of the
\* connection string, then connectDBWithRetry and connectDB up to tryConnect
StartServer ==
    /\ startup.pc = "load"
    /\ startup' = IF UriEmpty \/ ~UriSchemeKnown
                  THEN [startup EXCEPT !.pc = "exit(1)"]
                  ELSE [startup EXCEPT !.pc = "tryConnect", !.i = 1,
                                       !.backoffMs = BackoffMs,
                                       !.options = FirstOptions]
    /\ UNCHANGED <<config, requestsCollection, connects, clientVars, clockVars,
                   tokenVars, store, nextId, admitted, inflight, socketVars>>
    /\ Quiet

\* the pending tryConnect settles: listen, the relaxed retry, the wait before
\* the next attempt, or process.exit(1)
TryConnectSettles(outcome) ==
    /\ startup.pc = "tryConnect"
    /\ connects' = Append(connects, [i |-> startup.i,
                                     options |-> startup.options,
                                     outcome |-> outcome])
    /\ requestsCollection' = IF outcome.ok THEN "requests"
                             ELSE requestsCollection
    /\ startup' =
         IF outcome.ok
         THEN [startup EXCEPT !.pc = "listening"]
         ELSE IF startup.options = "baseOptions" /\ IsTLSError(outcome.message)
         THEN [startup EXCEPT !.options = "fallbackOptions"]
         ELSE IF startup.i < Attempts
         THEN [startup EXCEPT !.pc = "setTimeout",
                              !.due = now + startup.backoffMs,
                              !.waits = Append(@, startup.backoffMs)]
         ELSE [startup EXCEPT !.pc = "exit(1)"]
    /\ UNCHANGED <<config, clientVars, clockVars, tokenVars, store, nextId,
                   admitted, inflight, socketVars>>
    /\ Quiet

\* the wait of connectDBWithRetry is over: the next attempt begins
RetryTimerFires ==
    /\ startup.pc = "setTimeout"
    /\ now >= startup.due
    /\ startup' = [startup EXCEPT !.pc = "tryConnect", !.i = @ + 1,
                                  !.backoffMs = NextBackoff(@),
                                  !.options = FirstOptions]
    /\ UNCHANGED <<config, requestsCollection, connects, clientVars, clockVars,
                   tokenVars, store, nextId, admitted, inflight, socketVars>>
    /\ Quiet

(***************************************************************************)
(* GET /health.  When STATIC_DIR exists, app.get('*') is registered before *)
(* it and answers every GET outside /api and /socket.io with index.html;   *)
(* only when sendFile fails does the request reach the route.              *)
(***************************************************************************)
IndexHtml == [file |-> "index.html"]

\* process.env.NODE_ENV || 'development'
NodeEnv == IF Falsy(config.nodeEnv) THEN "development" ELSE config.nodeEnv

\* process.uptime(), in milliseconds: the process started at time 0
Uptime == now

Health ==
    /\ Listening
    /\ resp' = Response("health", 200,
                        IF config.staticDir = "frontend"
                        THEN IndexHtml
                        ELSE [ok |-> TRUE, uptime |-> Uptime, env |-> NodeEnv],
                        NoHandler)
    /\ published' = <<>>
    /\ UNCHANGED <<processVars, clientVars, clockVars, tokenVars, store, nextId,
                   admitted, inflight, socketVars>>

(***************************************************************************)
(* The SPOC token store.                                                   *)
(***************************************************************************)
\* crypto.randomBytes(20).toString('hex'): a token no earlier call returned
FreshToken == Cardinality(DOMAIN issued) + 1

\* the time to live added to the clock in seconds, not milliseconds
ExpiresAtSeconds(ttlSeconds) == now + ttlSeconds

ExpiresAt(ttlSeconds) == now + ttlSeconds * MsPerSecond

\* a timer set with twice the margin
TimerDueLate(ttlSeconds) ==
    now + ttlSeconds * MsPerSecond + 2 * TimerMarginMs

\* setTimeout(..., ttlSeconds * 1000 + 5000)
TimerDue(ttlSeconds) == now + ttlSeconds * MsPerSecond + TimerMarginMs

\* generateSpocToken(ttlSeconds, spocId); it returns FreshToken
GenerateSpocToken(ttlSeconds, spocId) ==
    /\ spocTokens' = MapSet(spocTokens, FreshToken,
                            [expiresAt |-> ExpiresAt(ttlSeconds),
                             spocId |-> spocId])
    /\ timers' = MapSet(timers, FreshToken, TimerDue(ttlSeconds))
    /\ issued' = MapSet(issued, FreshToken, ExpiresAt(ttlSeconds))

\* an entry counted as live until its deletion timer is due
ExpiredAfterMargin(entry) == now > entry.expiresAt + TimerMarginMs

\* Date.now() > entry.expiresAt
Expired(entry) == now > entry.expiresAt

\* what isValidSpocToken(token) returns
\* a lookup that never compares the clock with expiresAt
IsStoredSpocToken(token) == token # NoToken /\ token \in DOMAIN spocTokens

IsValidSpocToken(token) ==
    /\ token # NoToken
    /\ token \in DOMAIN spocTokens
    /\ ~Expired(spocTokens[token])

\* a token good for one lookup: the entry is deleted when it is presented
EvictPresented(token) ==
    IF token # NoToken /\ token \in DOMAIN spocTokens
    THEN MapDelete(spocTokens, token)
    ELSE spocTokens

\* the token map after isValidSpocToken(token): an expired entry is evicted
EvictExpired(token) ==
    IF token # NoToken /\ token \in DOMAIN spocTokens
       /\ Expired(spocTokens[token])
    THEN MapDelete(spocTokens, token)
    ELSE spocTokens

\* the setTimeout callback of generateSpocToken: spocTokens.delete(token)
TimerFire(token) ==
    /\ token \in DOMAIN timers
    /\ now >= timers[token]
    /\ spocTokens' = MapDelete(spocTokens, token)
    /\ timers' = MapDelete(timers, token)
    /\ UNCHANGED <<processVars, clientVars, issued, clockVars, store, nextId, admitted, inflight, socketVars>>
    /\ Quiet

\* time passes
Tick(d) ==
    /\ ticks < MaxTicks
    /\ now' = now + d
    /\ ticks' = ticks + 1
    /\ UNCHANGED <<processVars, clientVars, tokenVars, store, nextId, admitted, inflight, socketVars>>
    /\ Quiet

(***************************************************************************)
(* requireSpoc.                                                            *)
(***************************************************************************)
\* req.header('x-spoc-token') || req.body?.spocToken
PresentedToken(req) ==
    IF req.token # NoToken THEN req.token
    ELSE IF "body" \in DOMAIN req /\ "spocToken" \in DOMAIN req.body
         THEN req.body.spocToken
         ELSE NoToken

\* a token admits only if it is bound to no SPOC id
TokenAdmitsUnbound(req) ==
    /\ IsValidSpocToken(PresentedToken(req))
    /\ spocTokens[PresentedToken(req)].spocId = UndefinedChars

\* token && isValidSpocToken(token)
TokenAdmits(req) == IsValidSpocToken(PresentedToken(req))

\* a pin header of any value lets the request through
PinPresent(req) == req.pin # UndefinedChars /\ req.pin # <<>>

\* pinHeader && pinHeader === SPOC_PIN
PinAdmits(req) ==
    /\ req.pin # UndefinedChars
    /\ req.pin # <<>>
    /\ req.pin = SPOC_PIN

\* requireSpoc calls next()
RequireSpocPasses(req) == TokenAdmits(req) \/ PinAdmits(req)

\* the token that let the request through (NoToken: the pin header did)
AdmittingToken(req) == IF TokenAdmits(req) THEN PresentedToken(req) ELSE NoToken

(***************************************************************************)
(* POST /api/spoc/unlock.                                                  *)
(***************************************************************************)
\* the unlock request, which no suspended handler serves
UnlockOf(pin) == [NoHandler EXCEPT !.req = [pin |-> pin]]

Unlock(pin) ==
    /\ Listening
    /\ UNCHANGED <<processVars, clientVars, clockVars, store, nextId, admitted, inflight, socketVars>>
    /\ published' = <<>>
    /\ IF pin = UndefinedChars \/ pin = <<>>
       THEN /\ resp' = Response("unlock", 400, Error("PIN required"),
                                UnlockOf(pin))
            /\ UNCHANGED tokenVars
       ELSE IF pin = SPOC_PIN
       THEN /\ FreshToken \in Tokens
            /\ GenerateSpocToken(UnlockTtlSeconds, UndefinedChars)
            /\ resp' = Response("unlock", 200,
                                [token |-> FreshToken,
                                 expiresIn |-> UnlockTtlSeconds,
                                 method |-> "pin"],
                                UnlockOf(pin))
       ELSE IF Len(Trim(pin)) = 0
       THEN /\ resp' = Response("unlock", 401, Error("Invalid PIN / SPOC id"),
                                UnlockOf(pin))
            /\ UNCHANGED tokenVars
       ELSE /\ FreshToken \in Tokens
            /\ GenerateSpocToken(UnlockTtlSeconds, Trim(pin))
            /\ resp' = Response("unlock", 200,
                                [token |-> FreshToken,
                                 expiresIn |-> UnlockTtlSeconds,
                                 method |-> "spocId",
                                 spocId |-> Trim(pin)],
                                UnlockOf(pin))

(***************************************************************************)
(* GET /api/spoc/validate, which the SPOC page calls on load with its      *)
(* stored token.  The server registers no such route: its routes are       *)
(* /health, /, /api/requests, /api/requests/:id, /api/spoc/unlock and      *)
(* /api/_test-mongo, and the fallback that serves index.html passes /api   *)
(* paths on.  Express answers 404 without looking at the token.            *)
(***************************************************************************)
Validate(token) ==
    /\ Listening
    /\ resp' = Response("validate", 404,
                        Error("Cannot GET /api/spoc/validate"),
                        [NoHandler EXCEPT !.req = [token |-> token]])
    /\ published' = <<>>
    /\ UNCHANGED <<processVars, clientVars, clockVars, tokenVars, store, nextId, admitted, inflight,
                   socketVars>>

(***************************************************************************)
(* The requests collection.                                                *)
(***************************************************************************)
\* find({ _id: new ObjectId(id) })
FindById(id) == {d \in store : d._id = id}

\* findOne: the document, or null
FindOne(id) ==
    IF FindById(id) = {} THEN NullDoc ELSE CHOOSE d \in FindById(id) : TRUE

\* an update that also stamps the document with the time of the change
ApplySetStamped(doc, updates) ==
    [f \in DOMAIN doc \cup DOMAIN updates \cup {"updatedAt"} |->
        IF f = "updatedAt" THEN now
        ELSE IF f \in DOMAIN updates THEN updates[f] ELSE doc[f]]

\* an update that a document already changed by another update refuses
ApplySetWhilePending(doc, updates) ==
    IF doc.status # "pending" THEN doc
    ELSE [f \in DOMAIN doc \cup DOMAIN updates |->
            IF f \in DOMAIN updates THEN updates[f] ELSE doc[f]]

\* { $set: updates } applied to a document
ApplySet(doc, updates) ==
    [f \in DOMAIN doc \cup DOMAIN updates |->
        IF f \in DOMAIN updates THEN updates[f] ELSE doc[f]]

\* the collection after updateOne({ _id }, { $set: updates })
UpdateOne(id, updates) ==
    (store \ FindById(id)) \cup {ApplySet(d, updates) : d \in FindById(id)}

\* the collection after deleteMany({})
DeleteEvery(id) == {}

\* the collection after deleteOne({ _id })
DeleteOne(id) == store \ FindById(id)

\* sort({ createdAt: 1 }): the oldest first
OldestFirst(docs) == {x \in docs : \A y \in docs : x.createdAt <= y.createdAt}

\* sort({ createdAt: -1 }): the documents that may come first
LatestFirst(docs) == {x \in docs : \A y \in docs : y.createdAt <= x.createdAt}

\* find({}).sort({ createdAt: -1 }).toArray(): the orders the sort allows
\* (documents with equal createdAt come in any order)
RECURSIVE SortedByCreatedAt(_)
SortedByCreatedAt(docs) ==
    IF docs = {} THEN {<<>>}
    ELSE UNION { { <<d>> \o rest : rest \in SortedByCreatedAt(docs \ {d}) } :
                 d \in LatestFirst(docs) }

(***************************************************************************)
(* Handler frames: the locals of a handler suspended at an await (its      *)
(* request, the token that admitted it, the document findOne gave a        *)
(* delete), with a record of what it has done to the collection so far:    *)
(* whether it changed it, whether it did so past the expiry of its token,  *)
(* and, for an update, the document as updateOne found it.                 *)
(***************************************************************************)
Frame(op, pc, req, tok, doc) ==
    [op |-> op, pc |-> pc, req |-> req, tok |-> tok, doc |-> doc,
     wrote |-> FALSE, wroteLate |-> FALSE]

Suspend(h) == inflight (+) SetToBag({h})

Resume(h) == inflight (-) SetToBag({h})

Suspended(op, pc) == {h \in BagToSet(inflight) : h.op = op /\ h.pc = pc}

\* the frame after a database operation of the handler was applied
Wrote(h, pc) ==
    [h EXCEPT !.pc = pc,
              !.wrote = h.wrote \/ store' # store,
              !.wroteLate = h.wroteLate
                            \/ (store' # store /\ h.tok # NoToken
                                /\ now > issued[h.tok])]

Truthy(v) == ~Falsy(v)

(***************************************************************************)
(* GET /api/requests.                                                      *)
(***************************************************************************)
List ==
    /\ Listening
    /\ \E l \in SortedByCreatedAt(store) :
         resp' = Response("list", 200, [list |-> l], NoHandler)
    /\ published' = <<>>
    /\ UNCHANGED <<processVars, clientVars, clockVars, tokenVars, store, nextId, admitted, inflight, socketVars>>

(***************************************************************************)
(* POST /api/requests.                                                     *)
(***************************************************************************)
\* the status taken from the body when the body has one
NewRequestBodyStatus(b) ==
    [requester |-> IF Falsy(b.requester) THEN "" ELSE b.requester,
     category |-> b.category,
     details |-> IF Falsy(b.details) THEN "" ELSE b.details,
     location |-> b.location,
     quantity |-> IF Falsy(b.quantity) THEN "" ELSE b.quantity,
     teamId |-> IF Falsy(b.teamId) THEN Null ELSE b.teamId,
     spocId |-> IF Falsy(b.spocId) THEN Null ELSE b.spocId,
     status |-> IF "status" \in DOMAIN b THEN b.status ELSE "pending",
     createdAt |-> now,
     _id |-> nextId]

\* createdAt taken from a clock that was read once, at startup
NewRequestStartupClock(b) ==
    [requester |-> IF Falsy(b.requester) THEN "" ELSE b.requester,
     category |-> b.category,
     details |-> IF Falsy(b.details) THEN "" ELSE b.details,
     location |-> b.location,
     quantity |-> IF Falsy(b.quantity) THEN "" ELSE b.quantity,
     teamId |-> IF Falsy(b.teamId) THEN Null ELSE b.teamId,
     spocId |-> IF Falsy(b.spocId) THEN Null ELSE b.spocId,
     status |-> "pending",
     createdAt |-> 0,
     _id |-> nextId]

\* newRequest: the document a create builds from its body
NewRequest(b) ==
    [requester |-> IF Falsy(b.requester) THEN "" ELSE b.requester,
     category |-> b.category,
     details |-> IF Falsy(b.details) THEN "" ELSE b.details,
     location |-> b.location,
     quantity |-> IF Falsy(b.quantity) THEN "" ELSE b.quantity,
     teamId |-> IF Falsy(b.teamId) THEN Null ELSE b.teamId,
     spocId |-> IF Falsy(b.spocId) THEN Null ELSE b.spocId,
     status |-> "pending",
     createdAt |-> now,
     _id |-> nextId]

\* if (location === undefined): an empty location passes
LocationUndefined(b) == b.location = Undefined

\* if (!location) return res.status(400)
LocationMissing(b) == Falsy(b.location)

\* the team's event sent with io.emit instead of io.to(room).emit
CreatedEventsBroadcast(doc) ==
    <<Emit("request:created", doc)>>
    \o (IF Truthy(doc.spocId)
        THEN <<EmitTo(SpocRoom(doc.spocId), "request:created:forSpoc", doc)>>
        ELSE <<>>)
    \o (IF Truthy(doc.teamId)
        THEN <<Emit("request:created:forTeam", doc)>>
        ELSE <<>>)

\* the emits made with newRequest, the document before it had its id
CreatedEventsUninserted(doc) ==
    <<Emit("request:created", [f \in DOMAIN doc \ {"_id"} |-> doc[f]])>>
    \o (IF Truthy(doc.spocId)
        THEN <<EmitTo(SpocRoom(doc.spocId), "request:created:forSpoc",
                      [f \in DOMAIN doc \ {"_id"} |-> doc[f]])>>
        ELSE <<>>)
    \o (IF Truthy(doc.teamId)
        THEN <<EmitTo(TeamRoom(doc.teamId), "request:created:forTeam",
                      [f \in DOMAIN doc \ {"_id"} |-> doc[f]])>>
        ELSE <<>>)

\* the three emits of a create
CreatedEvents(doc) ==
    <<Emit("request:created", doc)>>
    \o (IF Truthy(doc.spocId)
        THEN <<EmitTo(SpocRoom(doc.spocId), "request:created:forSpoc", doc)>>
        ELSE <<>>)
    \o (IF Truthy(doc.teamId)
        THEN <<EmitTo(TeamRoom(doc.teamId), "request:created:forTeam", doc)>>
        ELSE <<>>)

\* up to await requestsCollection.insertOne(newRequest)
CreateStart(b) ==
    /\ Listening
    /\ UNCHANGED <<processVars, clientVars, clockVars, tokenVars, store, admitted, socketVars>>
    /\ IF LocationMissing(b)
       THEN /\ resp' = Response("create", 400, Error("Location is required"),
                                Frame("create", "done", b, NoToken, NullDoc))
            /\ published' = <<>>
            /\ UNCHANGED <<nextId, inflight>>
       ELSE /\ nextId <= MaxRequests
            /\ BagCardinality(inflight) < MaxInflight
            /\ inflight' = Suspend(Frame("create", "insertOne", b, NoToken,
                                         NewRequest(b)))
            /\ nextId' = nextId + 1
            /\ Awaiting("create", Frame("create", "insertOne", b, NoToken,
                                         NewRequest(b)))

\* the insert is applied; emits and res.status(201)
CreateInsert(h) ==
    /\ h \in Suspended("create", "insertOne")
    /\ store' = store \cup {h.doc}
    /\ published' = CreatedEvents(h.doc)
    /\ resp' = Response("create", 201, h.doc, Wrote(h, "done"))
    /\ inflight' = Resume(h)
    /\ pages' = Posted(published')
    /\ UNCHANGED <<processVars, clockVars, tokenVars, nextId, admitted, socketVars>>

(***************************************************************************)
(* PATCH /api/requests/:id.                                                *)
(***************************************************************************)
\* new ObjectId(id) throws on a malformed id
ObjectIdThrows(id) == id = MalformedId

\* an update announced on the global channel only
UpdatedEventsGlobalOnly(doc) == <<Emit("request:updated", doc)>>

\* the emits of an update; updatedRequest.spocId throws on null
UpdatedEvents(doc) ==
    <<Emit("request:updated", doc)>>
    \o (IF doc = NullDoc THEN <<>>
        ELSE (IF Truthy(doc.spocId)
              THEN <<EmitTo(SpocRoom(doc.spocId), "request:updated", doc)>>
              ELSE <<>>)
             \o (IF Truthy(doc.teamId)
                 THEN <<EmitTo(TeamRoom(doc.teamId), "request:updated", doc)>>
                 ELSE <<>>))

\* requireSpoc, then up to await requestsCollection.updateOne(...)
UpdateStart(req) ==
    /\ Listening
    /\ spocTokens' = EvictExpired(PresentedToken(req))
    /\ UNCHANGED <<processVars, clientVars, clockVars, timers, issued, store, nextId, socketVars>>
    /\ IF ~RequireSpocPasses(req)
       THEN /\ resp' = Response("update", 403,
                                Error("Forbidden: valid SPOC token required"),
                                Frame("update", "done", req, NoToken, NullDoc))
            /\ published' = <<>>
            /\ UNCHANGED <<admitted, inflight>>
       ELSE IF ObjectIdThrows(req.id)
       THEN /\ resp' = Response("update", 500, Error("BSONError"),
                                Frame("update", "done", req,
                                      AdmittingToken(req), NullDoc))
            /\ published' = <<>>
            /\ UNCHANGED <<admitted, inflight>>
       ELSE /\ BagCardinality(inflight) < MaxInflight
            /\ admitted < MaxMutations
            /\ admitted' = admitted + 1
            /\ inflight' = Suspend(Frame("update", "updateOne",
                                         [id |-> req.id, body |-> req.body],
                                         AdmittingToken(req), NullDoc))
            /\ Awaiting("update", Frame("update", "updateOne", req,
                                         AdmittingToken(req), NullDoc))

\* the update is applied; 404 or up to await requestsCollection.findOne(...)
UpdateWrite(h) ==
    /\ h \in Suspended("update", "updateOne")
    /\ UNCHANGED <<processVars, clientVars, clockVars, tokenVars, nextId, admitted, socketVars>>
    /\ IF FindById(h.req.id) = {}
       THEN /\ store' = store
            /\ resp' = Response("update", 404, Error("Request not found"),
                                Wrote(h, "done"))
            /\ published' = <<>>
            /\ inflight' = Resume(h)
       ELSE /\ store' = UpdateOne(h.req.id, h.req.body)
            /\ inflight' = Resume(h)
                           (+) SetToBag({[Wrote(h, "findOne")
                                            EXCEPT !.doc = FindOne(h.req.id)]})
            /\ Awaiting("update", Wrote(h, "findOne"))

\* the reload is applied; emits and res.json(updatedRequest)
UpdateReload(h) ==
    /\ h \in Suspended("update", "findOne")
    /\ published' = UpdatedEvents(FindOne(h.req.id))
    /\ resp' = IF FindOne(h.req.id) = NullDoc
               THEN Response("update", 500, Error("TypeError"),
                             [h EXCEPT !.pc = "done"])
               ELSE Response("update", 200, FindOne(h.req.id),
                             [h EXCEPT !.pc = "done"])
    /\ inflight' = Resume(h)
    /\ pages' = Posted(published')
    /\ UNCHANGED <<processVars, clockVars, tokenVars, store, nextId, admitted, socketVars>>

(***************************************************************************)
(* DELETE /api/requests/:id.                                               *)
(***************************************************************************)
\* the deletion announced with the whole document instead of its id
DeletedEventsWithDocument(id, doc) ==
    <<Emit("request:deleted", doc)>>
    \o (IF Truthy(doc.spocId)
        THEN <<EmitTo(SpocRoom(doc.spocId), "request:deleted", doc)>>
        ELSE <<>>)
    \o (IF Truthy(doc.teamId)
        THEN <<EmitTo(TeamRoom(doc.teamId), "request:deleted", doc)>>
        ELSE <<>>)

\* the emits of a delete, addressed by the document found before it
DeletedEvents(id, doc) ==
    <<Emit("request:deleted", [_id |-> id])>>
    \o (IF Truthy(doc.spocId)
        THEN <<EmitTo(SpocRoom(doc.spocId), "request:deleted", [_id |-> id])>>
        ELSE <<>>)
    \o (IF Truthy(doc.teamId)
        THEN <<EmitTo(TeamRoom(doc.teamId), "request:deleted", [_id |-> id])>>
        ELSE <<>>)

\* requireSpoc, then up to await requestsCollection.findOne(...)
DeleteStart(req) ==
    /\ Listening
    /\ spocTokens' = EvictExpired(PresentedToken(req))
    /\ UNCHANGED <<processVars, clientVars, clockVars, timers, issued, store, nextId, socketVars>>
    /\ IF ~RequireSpocPasses(req)
       THEN /\ resp' = Response("delete", 403,
                                Error("Forbidden: valid SPOC token required"),
                                Frame("delete", "done", req, NoToken, NullDoc))
            /\ published' = <<>>
            /\ UNCHANGED <<admitted, inflight>>
       ELSE IF ObjectIdThrows(req.id)
       THEN /\ resp' = Response("delete", 500, Error("BSONError"),
                                Frame("delete", "done", req,
                                      AdmittingToken(req), NullDoc))
            /\ published' = <<>>
            /\ UNCHANGED <<admitted, inflight>>
       ELSE /\ BagCardinality(inflight) < MaxInflight
            /\ admitted < MaxMutations
            /\ admitted' = admitted + 1
            /\ inflight' = Suspend(Frame("delete", "findOne", [id |-> req.id],
                                         AdmittingToken(req), NullDoc))
            /\ Awaiting("delete", Frame("delete", "findOne", req,
                                         AdmittingToken(req), NullDoc))

\* the lookup is applied; 404 or up to await requestsCollection.deleteOne(...)
DeleteFind(h) ==
    /\ h \in Suspended("delete", "findOne")
    /\ UNCHANGED <<processVars, clientVars, clockVars, tokenVars, store, nextId, admitted, socketVars>>
    /\ IF FindOne(h.req.id) = NullDoc
       THEN /\ resp' = Response("delete", 404, Error("Request not found"),
                                [h EXCEPT !.pc = "done"])
            /\ published' = <<>>
            /\ inflight' = Resume(h)
       ELSE /\ inflight' = Resume(h)
                           (+) SetToBag({[h EXCEPT !.pc = "deleteOne",
                                                   !.doc = FindOne(h.req.id)]})
            /\ Awaiting("delete", h)

\* a delete that does not test result.deletedCount
DeleteApplyUnchecked(h) ==
    /\ h \in Suspended("delete", "deleteOne")
    /\ UNCHANGED <<processVars, clockVars, tokenVars, nextId, admitted, socketVars>>
    /\ store' = DeleteOne(h.req.id)
    /\ inflight' = Resume(h)
    /\ resp' = Response("delete", 204, NoBody, Wrote(h, "done"))
    /\ published' = DeletedEvents(h.req.id, h.doc)
    /\ pages' = Posted(published')

\* the delete is applied; 404, or emits and res.status(204)
DeleteApply(h) ==
    /\ h \in Suspended("delete", "deleteOne")
    /\ UNCHANGED <<processVars, clockVars, tokenVars, nextId, admitted, socketVars>>
    /\ store' = DeleteOne(h.req.id)
    /\ inflight' = Resume(h)
    /\ IF FindById(h.req.id) = {}
       THEN /\ resp' = Response("delete", 404, Error("Request not found"),
                                Wrote(h, "done"))
            /\ published' = <<>>
       ELSE /\ resp' = Response("delete", 204, NoBody, Wrote(h, "done"))
            /\ published' = DeletedEvents(h.req.id, h.doc)
    /\ pages' = Posted(published')

(***************************************************************************)
(* Socket.IO connections and rooms.                                        *)
(***************************************************************************)
\* a join that takes any payload
JoinAny(id) == TRUE

\* typeof id === 'string' && id.length
JoinAccepted(id) == ~IsNonString(id) /\ Len(id) > 0

\* io.on('connection')
Connect(s) ==
    /\ Listening
    /\ s \notin connected
    /\ connected' = connected \cup {s}
    /\ UNCHANGED <<processVars, clientVars, clockVars, tokenVars, store, nextId, admitted, inflight, rooms>>
    /\ Quiet

\* the connection closes: the socket leaves every room
Disconnect(s) ==
    /\ s \in connected
    /\ connected' = connected \ {s}
    /\ rooms' = [rooms EXCEPT ![s] = {}]
    /\ UNCHANGED <<processVars, clientVars, clockVars, tokenVars, store, nextId, admitted, inflight>>
    /\ Quiet

\* socket.on('spoc:join') and socket.on('team:join')
Join(s, room, id) ==
    /\ s \in connected
    /\ rooms' = IF JoinAccepted(id)
                THEN [rooms EXCEPT ![s] = @ \cup {room}]
                ELSE rooms
    /\ UNCHANGED <<processVars, clockVars, tokenVars, store, nextId, admitted,
                   inflight, connected>>
    /\ Quiet

\* socket.on('spoc:leave') and socket.on('team:leave')
Leave(s, room) ==
    /\ s \in connected
    /\ rooms' = [rooms EXCEPT ![s] = @ \ {room}]
    /\ UNCHANGED <<processVars, clockVars, tokenVars, store, nextId, admitted,
                   inflight, connected>>
    /\ Quiet

\* the four signals, from a client that is no page of the application
SpocJoin(s, spocId) ==
    Join(s, SpocRoom(spocId), spocId) /\ UNCHANGED clientVars
SpocLeave(s, spocId) ==
    Leave(s, SpocRoom(spocId)) /\ UNCHANGED clientVars
TeamJoin(s, teamId) ==
    Join(s, TeamRoom(teamId), teamId) /\ UNCHANGED clientVars
TeamLeave(s, teamId) ==
    Leave(s, TeamRoom(teamId)) /\ UNCHANGED clientVars

(***************************************************************************)
(* The pages of the client (SpocPage.jsx, RequesterPage.jsx, socket.js).   *)
(* socket.emit queues a signal in the send buffer of the socket; it is     *)
(* delivered while the socket is connected, in order.  The response a page *)
(* handles is the one the step before sent.                                *)
(***************************************************************************)
\* a string of the characters of a text
RECURSIVE StringOf(_)
StringOf(chars) ==
    IF chars = <<>> THEN "" ELSE Head(chars) \o StringOf(Tail(chars))

\* TEAMS.find(tt => tt.spocId === spocId) || null
TeamOfSpoc(spocId) ==
    IF \E k \in 1 .. Len(TEAMS) : TEAMS[k].spocId = spocId
    THEN TEAMS[CHOOSE k \in 1 .. Len(TEAMS) : TEAMS[k].spocId = spocId]
    ELSE NullDoc

\* socket.emit(signal, id)
Emitted(page, signal, id) == Append(page.sendBuffer, [signal |-> signal, id |-> id])

\* the route /spoc is opened: no token is stored, so the auto-login returns
OpenSpocPage(s) ==
    /\ pages[s].view = "closed"
    /\ pages' = [pages EXCEPT ![s].view = "spoc"]
    /\ UNCHANGED <<processVars, clockVars, tokenVars, store, nextId, admitted,
                   inflight, socketVars>>
    /\ Quiet

\* the route /requester is opened: the effect of RequesterPage fetches the
\* list, registers the handlers and joins the team selected in the form,
\* TEAMS[0]?.id || ''
OpenRequesterPage(s) ==
    /\ pages[s].view = "closed"
    /\ pages' = [pages EXCEPT
                   ![s].view = "requester",
                   ![s].form = [teamId |-> IF Len(TEAMS) > 0 THEN TEAMS[1].id
                                           ELSE ""],
                   ![s].fetching = TRUE,
                   ![s].sendBuffer =
                       IF Len(TEAMS) > 0
                       THEN Emitted(pages[s], "team:join", TEAMS[1].id)
                       ELSE @]
    /\ UNCHANGED <<processVars, clockVars, tokenVars, store, nextId, admitted,
                   inflight, socketVars>>
    /\ Quiet

\* let spocId = j.spocId; if (!spocId) spocId = SPOCS.find(...)?.id
UnlockedSpocId(r) ==
    IF "spocId" \in DOMAIN r.body THEN StringOf(r.body.spocId)
    ELSE IF [id |-> StringOf(Trim(r.req.pin))] \in SPOCS
         THEN StringOf(Trim(r.req.pin))
         ELSE Undefined

\* the page after the unlock response r: up to await fetchTeamRequests
UnlockedPage(page, r) ==
    [page EXCEPT
       !.token = r.body.token,
       !.spoc = [id |-> UnlockedSpocId(r)],
       !.team = TeamOfSpoc(UnlockedSpocId(r)),
       !.fetching = @ \/ TeamOfSpoc(UnlockedSpocId(r)) # NullDoc,
       !.sendBuffer =
           (IF Truthy(UnlockedSpocId(r))
            THEN Emitted(page, "spoc:join", UnlockedSpocId(r))
            ELSE @)
           \o (IF TeamOfSpoc(UnlockedSpocId(r)) # NullDoc
               THEN <<[signal |-> "team:join",
                       id |-> TeamOfSpoc(UnlockedSpocId(r)).id]>>
               ELSE <<>>)]

\* handleUnlock after await fetch(.../api/spoc/unlock): alert on an error,
\* else store the token, show the dashboard and join the rooms
HandleUnlock(s) ==
    /\ pages[s].view = "spoc"
    /\ pages[s].spoc = NullDoc
    /\ resp.op = "unlock"
    /\ pages' = IF resp.code = 200
                THEN [pages EXCEPT ![s] = UnlockedPage(pages[s], resp)]
                ELSE pages
    /\ UNCHANGED <<processVars, clockVars, tokenVars, store, nextId, admitted,
                   inflight, socketVars>>
    /\ Quiet

\* the Logout button: leave the rooms, sessionStorage.removeItem,
\* setSpoc(null), setTeam(null), setRequests([])
Logout(s) ==
    /\ pages[s].view = "spoc"
    /\ pages[s].spoc # NullDoc
    /\ pages' = [pages EXCEPT
                   ![s].token = NoToken,
                   ![s].discarded = @ \cup ({pages[s].token} \ {NoToken}),
                   ![s].spoc = NullDoc,
                   ![s].team = NullDoc,
                   ![s].requests = <<>>,
                   ![s].sendBuffer =
                       (IF Truthy(pages[s].spoc.id)
                        THEN Emitted(pages[s], "spoc:leave", pages[s].spoc.id)
                        ELSE @)
                       \o (IF pages[s].team # NullDoc
                           THEN <<[signal |-> "team:leave",
                                   id |-> pages[s].team.id]>>
                           ELSE <<>>)]
    /\ UNCHANGED <<processVars, clockVars, tokenVars, store, nextId, admitted,
                   inflight, socketVars>>
    /\ Quiet

\* the server receives the oldest signal the page of s emitted
Deliver(s) ==
    /\ pages[s].sendBuffer # <<>>
    /\ pages' = [pages EXCEPT ![s].sendBuffer = Tail(@)]
    /\ LET m == Head(pages[s].sendBuffer)
       IN  CASE m.signal = "spoc:join" -> Join(s, SpocRoom(m.id), m.id)
             [] m.signal = "spoc:leave" -> Leave(s, SpocRoom(m.id))
             [] m.signal = "team:join" -> Join(s, TeamRoom(m.id), m.id)
             [] m.signal = "team:leave" -> Leave(s, TeamRoom(m.id))

\* data.filter(d => d.teamId === teamId)
RECURSIVE OfTeam(_, _)
OfTeam(docs, teamId) ==
    IF docs = <<>> THEN <<>>
    ELSE (IF Head(docs).teamId = teamId THEN <<Head(docs)>> ELSE <<>>)
         \o OfTeam(Tail(docs), teamId)

\* the page of s awaits the response of GET /api/requests, which the server
\* has just sent: it is on its way to the page
FetchResponse(s) ==
    /\ pages[s].fetching
    /\ resp.op = "list"
    /\ pages' = [pages EXCEPT ![s].fetching = FALSE,
                              ![s].http = Append(@, resp.body.list)]
    /\ UNCHANGED <<processVars, clockVars, tokenVars, store, nextId, admitted,
                   inflight, socketVars>>
    /\ Quiet

\* fetchRequests and fetchTeamRequests after await res.json(): the list is
\* replaced by the response, on the SPOC page by its requests of the team
SetFetched(s) ==
    /\ pages[s].http # <<>>
    /\ pages' = [pages EXCEPT
                   ![s].http = Tail(@),
                   ![s].requests =
                       IF pages[s].view = "requester"
                       THEN Head(pages[s].http)
                       ELSE IF pages[s].view = "spoc" /\ pages[s].team # NullDoc
                       THEN OfTeam(Head(pages[s].http), pages[s].team.id)
                       ELSE @]
    /\ UNCHANGED <<processVars, clockVars, tokenVars, store, nextId, admitted,
                   inflight, socketVars>>
    /\ Quiet

\* const body = { ...form, spocId: team?.spocId || null }
SubmitBody(form, location) ==
    [requester |-> "Al", category |-> "Tea", details |-> "",
     location |-> location, quantity |-> "", teamId |-> form.teamId,
     spocId |-> IF \E k \in 1 .. Len(TEAMS) : TEAMS[k].id = form.teamId
                THEN TEAMS[CHOOSE k \in 1 .. Len(TEAMS) :
                             TEAMS[k].id = form.teamId].spocId
                ELSE Null]

\* the bodies the form of a requester page submits
SubmitBodies(form) == {SubmitBody(form, location) : location \in {"", "3F-212"}}

\* handleSubmit up to await fetch(.../api/requests): the form is posted
SubmitStart(s, b) ==
    /\ pages[s].view = "requester"
    /\ b \in SubmitBodies(pages[s].form)
    /\ CreateStart(b)

\* handleSubmit after await fetch(.../api/requests): alert on an error, else
\* setRequests(prev => [created, ...prev])
HandleSubmit(s) ==
    /\ pages[s].view = "requester"
    /\ resp.op = "create"
    /\ resp.code # 0
    /\ resp.req \in SubmitBodies(pages[s].form)
    /\ pages' = IF resp.code = 201
                THEN [pages EXCEPT ![s].requests = <<resp.body>> \o @]
                ELSE pages
    /\ UNCHANGED <<processVars, clockVars, tokenVars, store, nextId, admitted,
                   inflight, socketVars>>
    /\ Quiet

\* prev.map(r => r._id === doc._id ? doc : r)
Replaced(prev, doc) ==
    [k \in 1 .. Len(prev) |-> IF prev[k]._id = doc._id THEN doc ELSE prev[k]]

\* prev.filter(r => r._id !== d._id)
RECURSIVE Without(_, _)
Without(prev, d) ==
    IF prev = <<>> THEN <<>>
    ELSE (IF Head(prev)._id = d._id THEN <<>> ELSE <<Head(prev)>>)
         \o Without(Tail(prev), d)

\* the handler of an event: onCreated, createdHandler (if (!doc) return),
\* onUpdated, updatedHandler (doc._id throws on null while the list is
\* rendered with entries: the page goes down), onDeleted, deletedHandler
Handled(page, e) ==
    CASE e.event \in {"request:created", "request:created:forSpoc",
                      "request:created:forTeam"} ->
           IF page.view = "spoc" /\ e.payload = NullDoc THEN page
           ELSE [page EXCEPT !.requests = <<e.payload>> \o @]
      [] e.event = "request:updated" ->
           IF e.payload = NullDoc
           THEN (IF page.requests = <<>> THEN page
                 ELSE [page EXCEPT !.view = "crashed"])
           ELSE [page EXCEPT !.requests = Replaced(@, e.payload)]
      [] e.event = "request:deleted" ->
           [page EXCEPT !.requests = Without(@, e.payload)]

\* the page of s handles the oldest event that reached it
Receive(s) ==
    /\ pages[s].inbox # <<>>
    /\ pages' = [pages EXCEPT
                   ![s] = [Handled(pages[s], Head(pages[s].inbox))
                             EXCEPT !.inbox = Tail(pages[s].inbox)]]
    /\ UNCHANGED <<processVars, clockVars, tokenVars, store, nextId, admitted,
                   inflight, socketVars>>
    /\ Quiet

(***************************************************************************)
(* The clock.  Only comparisons of Date.now() with a token's expiry and    *)
(* with its timer's due time, and the order of createdAt values, depend on *)
(* it: it moves by a millisecond, or to an instant at which a token is at  *)
(* its expiry, just past it, or due for deletion.                          *)
(***************************************************************************)
Deadlines ==
    UNION { {issued[t], issued[t] + 1, issued[t] + TimerMarginMs} :
            t \in DOMAIN issued }
    \cup (IF startup.pc = "setTimeout" THEN {startup.due} ELSE {})

DeadlineSteps == {t - now : t \in {x \in Deadlines : x > now}}

TickSteps == {1} \cup DeadlineSteps

(***************************************************************************)
(* The system: every request, signal and timer, in any order.              *)
(***************************************************************************)
Next ==
    \/ StartServer
    \/ \E outcome \in ConnectOutcomes : TryConnectSettles(outcome)
    \/ RetryTimerFires
    \/ Health
    \/ \E s \in Sockets : OpenSpocPage(s)
    \/ \E s \in Sockets : OpenRequesterPage(s)
    \/ \E s \in Sockets : HandleUnlock(s)
    \/ \E s \in Sockets : Logout(s)
    \/ \E s \in Sockets : Deliver(s)
    \/ \E s \in Sockets : FetchResponse(s)
    \/ \E s \in Sockets : SetFetched(s)
    \/ \E s \in Sockets : \E b \in SubmitBodies(pages[s].form) : SubmitStart(s, b)
    \/ \E s \in Sockets : HandleSubmit(s)
    \/ \E s \in Sockets : Receive(s)
    \/ \E d \in TickSteps : Tick(d)
    \/ \E t \in Tokens : TimerFire(t)
    \/ \E pin \in PinInputs : Unlock(pin)
    \/ \E t \in Tokens : Validate(t)
    \/ List
    \/ \E b \in CreateBodies : CreateStart(b)
    \/ \E h \in BagToSet(inflight) : CreateInsert(h)
    \/ \E req \in UpdateRequests : UpdateStart(req)
    \/ \E h \in BagToSet(inflight) : UpdateWrite(h)
    \/ \E h \in BagToSet(inflight) : UpdateReload(h)
    \/ \E req \in DeleteRequests : DeleteStart(req)
    \/ \E h \in BagToSet(inflight) : DeleteFind(h)
    \/ \E h \in BagToSet(inflight) : DeleteApply(h)
    \/ \E s \in Sockets : Connect(s)
    \/ \E s \in Sockets : Disconnect(s)
    \/ \E s \in Sockets, id \in SpocPayloads : SpocJoin(s, id)
    \/ \E s \in Sockets, id \in SpocPayloads : SpocLeave(s, id)
    \/ \E s \in Sockets, id \in TeamPayloads : TeamJoin(s, id)
    \/ \E s \in Sockets, id \in TeamPayloads : TeamLeave(s, id)

Spec == Init /\ [][Next]_vars

(***************************************************************************)
(* Workloads.  The product of all clients, timers and clock values is      *)
(* beyond exhaustive search, so each property is stated over the workload  *)
(* that exercises it: a specification whose steps are steps of Next, with  *)
(* the requests and signals the clients send restricted.                   *)
(***************************************************************************)
SessionUpdates ==
    {req \in UpdateRequests : req.pin = UndefinedChars}

SessionDeletes ==
    {req \in DeleteRequests : req.pin = UndefinedChars}

\* the request lifecycle: one SPOC session, requesters and concurrent
\* handlers, with the clock standing still
NextRequests ==
    \/ Unlock(SPOC_PIN)
    \/ List
    \/ \E b \in CreateBodies : CreateStart(b)
    \/ \E h \in BagToSet(inflight) : CreateInsert(h)
    \/ \E req \in SessionUpdates : UpdateStart(req)
    \/ \E h \in BagToSet(inflight) : UpdateWrite(h)
    \/ \E h \in BagToSet(inflight) : UpdateReload(h)
    \/ \E req \in SessionDeletes : DeleteStart(req)
    \/ \E h \in BagToSet(inflight) : DeleteFind(h)
    \/ \E h \in BagToSet(inflight) : DeleteApply(h)

SpecRequests == Init /\ [][NextRequests]_vars

\* the fan-out: requesters submit while connections open, close, join and
\* leave rooms and time passes
NextFanout ==
    \/ Tick(1)
    \/ \E b \in CreateBodies : CreateStart(b)
    \/ \E h \in BagToSet(inflight) : CreateInsert(h)
    \/ \E s \in Sockets : Connect(s)
    \/ \E s \in Sockets : Disconnect(s)
    \/ \E s \in Sockets, id \in SpocPayloads : SpocJoin(s, id)
    \/ \E s \in Sockets, id \in SpocPayloads : SpocLeave(s, id)
    \/ \E s \in Sockets, id \in TeamPayloads : TeamJoin(s, id)
    \/ \E s \in Sockets, id \in TeamPayloads : TeamLeave(s, id)

SpecFanout == Init /\ [][NextFanout]_vars

\* sessions: unlocks, token expiry and timers, and mutations of one
\* request under every kind of credential
SessionBodies == {b \in CreateBodies : b.location = "3F-212"}

\* updates of the one request of the workload, or with a malformed id; the
\* body carries a token when no header carries a credential
CredentialUpdates ==
    {req \in UpdateRequests :
        /\ req.id \in {MalformedId, 1}
        /\ ("spocToken" \in DOMAIN req.body) = (req.token = NoToken
                                                 /\ req.pin = UndefinedChars)}

CredentialDeletes == {req \in DeleteRequests : req.id \in {MalformedId, 1}}

NextSessions ==
    \/ \E d \in DeadlineSteps : Tick(d)
    \/ \E t \in Tokens : TimerFire(t)
    \/ \E pin \in PinInputs : Unlock(pin)
    \/ \E b \in SessionBodies : nextId = 1 /\ CreateStart(b)
    \/ \E h \in BagToSet(inflight) : CreateInsert(h)
    \/ \E req \in CredentialUpdates : UpdateStart(req)
    \/ \E h \in BagToSet(inflight) : UpdateWrite(h)
    \/ \E h \in BagToSet(inflight) : UpdateReload(h)
    \/ \E req \in CredentialDeletes : DeleteStart(req)
    \/ \E h \in BagToSet(inflight) : DeleteFind(h)
    \/ \E h \in BagToSet(inflight) : DeleteApply(h)

SpecSessions == Init /\ [][NextSessions]_vars

\* a SPOC page at work: it unlocks with the PIN or as SPOC S2, validates its
\* token, joins its rooms, and updates and deletes the one request of team
\* T1 and SPOC S1 while a second page does the same
SpocPins == {SPOC_PIN, <<"S", "2">>}

SpocUpdates == {req \in SessionUpdates : req.id = 1 /\ req.token # NoToken}

SpocDeletes == {req \in SessionDeletes : req.id = 1 /\ req.token # NoToken}

NextSpoc ==
    \/ \E pin \in SpocPins : Unlock(pin)
    \/ \E t \in Tokens : Validate(t)
    \/ List
    \/ \E b \in SessionBodies : nextId = 1 /\ CreateStart(b)
    \/ \E h \in BagToSet(inflight) : CreateInsert(h)
    \/ \E req \in SpocUpdates : UpdateStart(req)
    \/ \E h \in BagToSet(inflight) : UpdateWrite(h)
    \/ \E h \in BagToSet(inflight) : UpdateReload(h)
    \/ \E req \in SpocDeletes : DeleteStart(req)
    \/ \E h \in BagToSet(inflight) : DeleteFind(h)
    \/ \E h \in BagToSet(inflight) : DeleteApply(h)
    \/ \E s \in Sockets : Connect(s)
    \/ \E s \in Sockets : SpocJoin(s, "S1")
    \/ \E s \in Sockets : TeamJoin(s, "T1")

SpecSpoc == Init /\ [][NextSpoc]_vars

\* startup: the process from its first instruction, in every environment,
\* with every outcome of its connection attempts, and the first requests of
\* a server that came to listen
NextStartup ==
    \/ StartServer
    \/ \E outcome \in ConnectOutcomes : TryConnectSettles(outcome)
    \/ RetryTimerFires
    \/ \E d \in TickSteps : Tick(d)
    \/ Health
    \/ List

SpecStartup == ProcessStart /\ [][NextStartup]_vars

\* eviction: tokens are issued, presented at the gate and left to expire.
\* The clock moves to the instant the next timer is due, and a timer that
\* is due fires before more time passes (the event loop is not blocked);
\* the clock and the timers are not held back for ever.
TimersDue == {t \in DOMAIN timers : now >= timers[t]}

TimerSteps == {timers[t] - now : t \in {x \in DOMAIN timers : timers[x] > now}}

AwaitTimer == \E d \in TimerSteps : TimersDue = {} /\ Tick(d)

NextEviction ==
    \/ AwaitTimer
    \/ \E t \in Tokens : TimerFire(t)
    \/ \E pin \in SpocPins : Unlock(pin)
    \/ \E req \in SpocUpdates : UpdateStart(req)
    \/ \E h \in BagToSet(inflight) : UpdateWrite(h)
    \/ \E h \in BagToSet(inflight) : UpdateReload(h)
    \/ \E b \in SessionBodies : nextId = 1 /\ CreateStart(b)
    \/ \E h \in BagToSet(inflight) : CreateInsert(h)

SpecEviction ==
    /\ Init
    /\ [][NextEviction]_vars
    /\ WF_vars(AwaitTimer)
    /\ WF_vars(\E t \in Tokens : TimerFire(t))

\* SPOC pages and their sessions: tabs open the SPOC page, unlock with the
\* PIN or as SPOC S1 and log out, while tokens are presented for updates
\* and deletes, expire and are evicted
PagePins == {SPOC_PIN, <<" ", "S", "1">>}

NextLogout ==
    \/ \E s \in Sockets : OpenSpocPage(s)
    \/ \E pin \in PagePins : Unlock(pin)
    \/ \E s \in Sockets : HandleUnlock(s)
    \/ \E s \in Sockets : Logout(s)
    \/ \E req \in SpocUpdates : UpdateStart(req)
    \/ \E h \in BagToSet(inflight) : UpdateWrite(h)
    \/ \E req \in SpocDeletes : DeleteStart(req)
    \/ \E h \in BagToSet(inflight) : DeleteFind(h)
    \/ \E d \in DeadlineSteps : Tick(d)
    \/ \E t \in Tokens : TimerFire(t)

SpecLogout == Init /\ [][NextLogout]_vars

\* pages and their connections: tabs open the SPOC page or the requester
\* page, unlock as SPOC S1, log out, lose and regain their connection, while
\* requests of team T1 and SPOC S1 are created
NextReconnect ==
    \/ \E s \in Sockets : Connect(s)
    \/ \E s \in Sockets : Disconnect(s)
    \/ \E s \in Sockets : OpenSpocPage(s)
    \/ \E s \in Sockets : OpenRequesterPage(s)
    \/ Unlock(<<" ", "S", "1">>)
    \/ \E s \in Sockets : HandleUnlock(s)
    \/ \E s \in Sockets : Logout(s)
    \/ \E s \in Sockets : Deliver(s)
    \/ \E b \in SessionBodies : nextId = 1 /\ CreateStart(b)
    \/ \E h \in BagToSet(inflight) : CreateInsert(h)

SpecReconnect == Init /\ [][NextReconnect]_vars

\* rooms: connections open and close and send every join and leave signal
\* with every kind of payload, while a request of team T1 and SPOC S1 is
\* created
NextRooms ==
    \/ \E s \in Sockets : Connect(s)
    \/ \E s \in Sockets : Disconnect(s)
    \/ \E s \in Sockets, id \in SpocPayloads : SpocJoin(s, id)
    \/ \E s \in Sockets, id \in SpocPayloads : SpocLeave(s, id)
    \/ \E s \in Sockets, id \in TeamPayloads : TeamJoin(s, id)
    \/ \E s \in Sockets, id \in TeamPayloads : TeamLeave(s, id)
    \/ \E b \in SessionBodies : CreateStart(b)
    \/ \E h \in BagToSet(inflight) : CreateInsert(h)

SpecRooms == Init /\ [][NextRooms]_vars

\* requester pages: tabs connect, then open the requester page, fetch the list
\* and submit requests, while the responses and the events reach them in any
\* order
NextRequester ==
    \/ \E s \in Sockets : Connect(s)
    \/ \E s \in Sockets : s \in connected /\ OpenRequesterPage(s)
    \/ \E s \in Sockets : Deliver(s)
    \/ List
    \/ \E s \in Sockets : FetchResponse(s)
    \/ \E s \in Sockets : SetFetched(s)
    \/ \E s \in Sockets : \E b \in SubmitBodies(pages[s].form) : SubmitStart(s, b)
    \/ \E h \in BagToSet(inflight) : CreateInsert(h)
    \/ \E s \in Sockets : HandleSubmit(s)
    \/ \E s \in Sockets : Receive(s)

SpecRequester == Init /\ [][NextRequester]_vars

\* SPOC dashboards: tabs connect, then open the SPOC page and unlock as SPOC
\* S1, which joins the rooms and fetches the list of the team, while requests
\* of team T1 and SPOC S1 are created
NextDashboard ==
    \/ \E s \in Sockets : Connect(s)
    \/ \E s \in Sockets : s \in connected /\ OpenSpocPage(s)
    \/ Unlock(<<" ", "S", "1">>)
    \/ \E s \in Sockets : HandleUnlock(s)
    \/ \E s \in Sockets : Deliver(s)
    \/ List
    \/ \E s \in Sockets : FetchResponse(s)
    \/ \E s \in Sockets : SetFetched(s)
    \/ \E b \in SessionBodies : CreateStart(b)
    \/ \E h \in BagToSet(inflight) : CreateInsert(h)
    \/ \E s \in Sockets : Receive(s)

SpecDashboard == Init /\ [][NextDashboard]_vars


(***************************************************************************)
(* Properties of the request lifecycle.                                    *)
(***************************************************************************)
\* the ids of the documents stored or about to be
IdsInUse ==
    {d._id : d \in store}
    \cup {h.doc._id : h \in Suspended("create", "insertOne")}

\* C1: a create whose location is missing or empty is answered 400, and it
\* persists no document (neither now nor later: no handler is left running)
\* and publishes no event.
C1_CreateWithoutLocationRejected ==
    [][\A b \in CreateBodies :
         (b.location \in {Undefined, ""} /\ CreateStart(b))
         => /\ resp'.op = "create" /\ resp'.code = 400
            /\ store' = store
            /\ inflight' = inflight
            /\ published' = <<>>]_vars

C1_Witness ==
    /\ resp.op = "create" /\ resp.code = 400
    /\ store # {}

\* C2: a create with a non-empty location is answered 201 with the stored
\* document: its status is pending, its createdAt is the server's clock at
\* the time the request was handled, its id is one no other document has,
\* and its other fields come from the body, whatever they are.
C2_CreateSucceeds ==
    [][/\ \A b \in CreateBodies :
            (b.location \notin {Undefined, ""} /\ CreateStart(b))
            => \E h \in BagToSet(inflight') :
                 /\ h.op = "create" /\ h.req = b
                 /\ h.doc.status = "pending"
                 /\ h.doc.createdAt = now
                 /\ h.doc.location = b.location
                 /\ h.doc.category = b.category
                 /\ h.doc._id \notin IdsInUse
       /\ \A h \in BagToSet(inflight) :
            CreateInsert(h)
            => /\ resp'.op = "create" /\ resp'.code = 201
               /\ resp'.body = h.doc
               /\ resp'.body \in store'
               /\ resp'.body.status = "pending"
               /\ {d \in store' : d._id = resp'.body._id} = {resp'.body}]_vars

C2_Witness ==
    /\ resp.op = "create" /\ resp.code = 201
    /\ resp.body.status = "pending"
    /\ resp.body.category = Undefined
    /\ resp.body.createdAt > 0
    /\ resp.body \in store

\* l lists each of docs exactly once
IsOrderingOf(l, docs) ==
    /\ {l[k] : k \in 1..Len(l)} = docs
    /\ Len(l) = Cardinality(docs)

\* C3: a list returns every stored document exactly once, a document with a
\* later createdAt before one with an earlier createdAt, and changes nothing
\* on the server.
C3_ListReturnsAllNewestFirst ==
    [][resp'.op = "list"
       => /\ resp'.code = 200
          /\ IsOrderingOf(resp'.body.list, store)
          /\ \A j, k \in 1..Len(resp'.body.list) :
               j < k => resp'.body.list[j].createdAt >= resp'.body.list[k].createdAt
          /\ UNCHANGED <<store, nextId, inflight, tokenVars, socketVars, clockVars>>]_vars

C3_Witness ==
    /\ resp.op = "list"
    /\ Len(resp.body.list) = 2
    /\ resp.body.list[1].createdAt > resp.body.list[2].createdAt
    /\ resp.body.list[1]._id > resp.body.list[2]._id

(***************************************************************************)
(* Properties of the authentication gate and of the session tokens.        *)
(***************************************************************************)
\* t was issued by an unlock and the clock is not past its expiry instant
SessionLive(t) == t \in DOMAIN issued /\ now <= issued[t]

\* the last step ran requireSpoc for the request resp.req
AtGate == resp.op \in {"update", "delete"} /\ "pin" \in DOMAIN resp.req

\* the request is turned away by the gate: 403, its handler does not run
TurnedAway(op) ==
    /\ resp'.op = op /\ resp'.code = 403
    /\ store' = store
    /\ inflight' = inflight
    /\ published' = <<>>

\* C4 as the specification states it: an update to done without a valid
\* session token is answered 403, leaves the collection as it is and
\* publishes nothing.
C4_UpdateWithoutTokenForbidden ==
    [][(/\ AtGate' /\ resp'.op = "update"
        /\ resp'.req.body.status = "done"
        /\ ~SessionLive(PresentedToken(resp'.req)))
       => TurnedAway("update")]_vars

\* C4: an update to done without a valid session token and without an
\* x-spoc-pin header equal to the configured PIN is answered 403, leaves
\* the collection as it is and publishes nothing.
C4_UpdateWithoutCredentialForbidden ==
    [][(/\ AtGate' /\ resp'.op = "update"
        /\ resp'.req.body.status = "done"
        /\ ~SessionLive(PresentedToken(resp'.req))
        /\ resp'.req.pin # SPOC_PIN)
       => TurnedAway("update")]_vars

C4_Witness ==
    /\ AtGate /\ resp.op = "update" /\ resp.code = 403
    /\ resp.req.body.status = "done"
    /\ spocTokens # EmptyMap
    /\ store # {}
    /\ \A d \in store : d.status = "pending"

\* what the specification says of a token's life: valid before its expiry
\* instant, rejected after it
TokenLife ==
    \A t \in DOMAIN issued :
      /\ now < issued[t] => IsValidSpocToken(t)
      /\ now > issued[t] => ~IsValidSpocToken(t)

\* C9 as the specification states it: a token is valid at every instant
\* before its expiry and rejected at every instant after it, and no update
\* or delete it authorized changes the collection after the expiry instant.
C9_NoWriteAfterExpiry ==
    /\ TokenLife
    /\ ~resp.wroteLate
    /\ \A h \in BagToSet(inflight) : ~h.wroteLate

\* C9: a token is valid at every instant before its expiry and rejected at
\* every instant after it, and no update or delete passes the gate on that
\* token after the expiry instant (one that passed it before may still
\* apply its writes later).
C9_NoAdmissionAfterExpiry ==
    /\ []TokenLife
    /\ [][(/\ AtGate'
            /\ PresentedToken(resp'.req) \in DOMAIN issued
            /\ now > issued[PresentedToken(resp'.req)]
            /\ resp'.req.pin # SPOC_PIN)
           => TurnedAway(resp'.op)]_vars

C9_Witness ==
    /\ AtGate /\ resp.code = 403
    /\ PresentedToken(resp.req) \in DOMAIN issued
    /\ now > issued[PresentedToken(resp.req)]
    /\ \E h \in BagToSet(inflight) : h.tok = PresentedToken(resp.req)

\* the request presents a token that is in the token store and not expired,
\* or an x-spoc-pin header equal to the configured PIN
Entitled(req) ==
    \/ /\ PresentedToken(req) # NoToken
       /\ PresentedToken(req) \in DOMAIN spocTokens
       /\ now <= spocTokens[PresentedToken(req)].expiresAt
    \/ req.pin = SPOC_PIN

\* C10: the gate lets a request through exactly when it presents a token
\* that is stored and not expired, or the pin header equals the configured
\* PIN; any other request is answered 403 and its handler never runs.
C10_GatePassesIffEntitled ==
    [][AtGate'
       => IF Entitled(resp'.req)
          THEN resp'.code # 403
          ELSE TurnedAway(resp'.op)]_vars

C10_Witness ==
    /\ AtGate /\ resp.code = 0
    /\ resp.req.pin = SPOC_PIN
    /\ spocTokens = EmptyMap
    /\ \E h \in BagToSet(inflight) : h.op = resp.op /\ h.tok = NoToken

(***************************************************************************)
(* Properties of update, delete and the fan-out of events.                 *)
(***************************************************************************)
\* the update of frame h, authorized by a session token, sets the status of
\* an existing request to done and is about to reload it
SetsDone(h) ==
    /\ h.op = "update" /\ h.pc = "findOne"
    /\ h.tok # NoToken
    /\ h.req.body = [status |-> "done"]

\* the request is stored as the update of frame h left it
Undisturbed(h) == FindOne(h.req.id) = ApplySet(h.doc, h.req.body)

\* C5 as the specification states it: an update of an existing request to
\* done with a valid token returns the document with status done and every
\* other field as it was stored before the update.
C5_UpdateReturnsDoneDocument ==
    [][\A h \in BagToSet(inflight) :
         (SetsDone(h) /\ UpdateReload(h))
         => /\ resp'.code = 200
            /\ resp'.body = [h.doc EXCEPT !.status = "done"]]_vars

\* C5: an update of an existing request to done with a valid token returns
\* the document with status done and every other field as it was stored
\* before the update, when no other update or delete of that request was
\* applied between its write and its reload; otherwise it returns the
\* document as it is stored at the reload, or, the document being deleted,
\* publishes request:updated with a null payload and answers 500.
C5_UpdateReturnsReloadedDocument ==
    [][\A h \in BagToSet(inflight) :
         (SetsDone(h) /\ UpdateReload(h))
         => /\ Undisturbed(h)
               => /\ resp'.code = 200
                  /\ resp'.body = [h.doc EXCEPT !.status = "done"]
            /\ (~Undisturbed(h) /\ FindById(h.req.id) # {})
               => /\ resp'.code = 200
                  /\ resp'.body \in FindById(h.req.id)
            /\ FindById(h.req.id) = {}
               => /\ resp'.code = 500
                  /\ published'[1].event = "request:updated"
                  /\ published'[1].payload = NullDoc]_vars

C5_Witness ==
    /\ resp.op = "update" /\ resp.code = 200
    /\ resp.req.body = [status |-> "done"]
    /\ resp.body.status = "done"
    /\ resp.body.requester = "Al"
    /\ resp.body \in store

\* C6 as the specification states it: an authenticated update or delete
\* whose id matches no stored document is answered 404, changes nothing and
\* publishes no event.
C6_AbsentIdNotFound ==
    [][(/\ resp'.op \in {"update", "delete"}
        /\ resp'.code \notin {0, 403}
        /\ FindById(resp'.req.id) = {})
       => /\ resp'.code = 404
          /\ store' = store
          /\ published' = <<>>]_vars

\* a request whose id was given out and which is neither stored nor about
\* to be: it was deleted
Gone(i) ==
    /\ i < nextId
    /\ FindById(i) = {}
    /\ \A h \in Suspended("create", "insertOne") : h.doc._id # i

\* C7: once a delete of an existing id is answered 204, the document is out
\* of the collection, every other document is as it was, the id never comes
\* back, and no list from then on holds a document with that id.
C7_DeletedStaysDeleted ==
    [][/\ (resp'.op = "delete" /\ resp'.code = 204)
          => /\ FindById(resp'.req.id) # {}
             /\ store' = {d \in store : d._id # resp'.req.id}
             /\ Gone(resp.req.id)'
       /\ \A i \in 1..MaxRequests : Gone(i) => Gone(i)'
       /\ resp'.op = "list"
          => \A k \in 1..Len(resp'.body.list) :
               ~Gone(resp.body.list[k]._id)']_vars

C7_Witness ==
    /\ resp.op = "delete" /\ resp.code = 204
    /\ store # {}
    /\ Gone(resp.req.id)

\* the request:created:forTeam payloads the last step sent to socket s
ForTeamTo(s) ==
    {published[k].payload :
       k \in {j \in 1..Len(published) :
                /\ published[j].event = "request:created:forTeam"
                /\ s \in published[j].to}}

\* socket s is connected and in the room of team x
InTeam(s, x) == s \in connected /\ ("team:" \o x) \in rooms[s]

\* C8: a connected client that has joined the room of team X receives
\* request:created:forTeam for every request created with teamId X while it
\* is joined, and never receives one for a request of another team or of
\* no team.
C8_ForTeamReachesExactlyTheTeam ==
    \A s \in Sockets :
      /\ \A d \in ForTeamTo(s) : d.teamId # Null /\ InTeam(s, d.teamId)
      /\ (/\ resp.op = "create" /\ resp.code = 201
          /\ resp.body.teamId # Null
          /\ InTeam(s, resp.body.teamId))
         => resp.body \in ForTeamTo(s)

C8_Witness ==
    /\ resp.op = "create" /\ resp.code = 201
    /\ \E s, t \in connected :
         /\ ForTeamTo(s) = {resp.body}
         /\ ForTeamTo(t) = {}
         /\ rooms[t] # {}

(***************************************************************************)
(* Properties of the unlock endpoint.                                      *)
(***************************************************************************)
\* the last step answered an unlock with a token
Unlocked == resp.op = "unlock" /\ resp.code = 200

\* the token of the step's unlock is new, stored, and expires 15 minutes
\* from now
IssuedFor15Minutes ==
    /\ resp'.body.token \notin DOMAIN issued
    /\ resp'.body.token \notin DOMAIN spocTokens
    /\ resp'.body.token \in DOMAIN spocTokens'
    /\ spocTokens'[resp'.body.token].expiresAt = now + 15 * 60 * 1000
    /\ resp'.body.expiresIn = 15 * 60

\* the token of the step's unlock is stored with SPOC id id (none for the
\* PIN), and the response says so
StoredWith(id) ==
    IF resp'.req.pin = SPOC_PIN
    THEN /\ spocTokens'[resp'.body.token].spocId = UndefinedChars
         /\ "spocId" \notin DOMAIN resp'.body
    ELSE /\ spocTokens'[resp'.body.token].spocId = id
         /\ resp'.body.spocId = spocTokens'[resp'.body.token].spocId

\* id is pin without the white space around it
Stripped(pin, id) ==
    \E i, j \in 1..Len(pin) :
      /\ id = SubSeq(pin, i, j)
      /\ i <= j
      /\ pin[i] \notin {" ", "\t"} /\ pin[j] \notin {" ", "\t"}
      /\ \A k \in 1..Len(pin) : (k < i \/ k > j) => pin[k] \in {" ", "\t"}

\* C11 as the specification states it: unlock with the PIN issues a fresh
\* token with no SPOC id and a 15-minute expiry; unlock with any other
\* accepted input issues one stored with the input itself as SPOC id, the
\* same expiry, and the response's spocId is the id stored.
C11_UnlockStoresInput ==
    [][Unlocked' => IssuedFor15Minutes /\ StoredWith(resp'.req.pin)]_vars

\* C11: unlock with the PIN issues a fresh token with no SPOC id and a
\* 15-minute expiry; unlock with any other accepted input issues one stored
\* with the input trimmed of the white space around it as SPOC id, the same
\* expiry, and the response's spocId is the id stored.
C11_UnlockStoresTrimmedInput ==
    [][Unlocked'
       => /\ IssuedFor15Minutes
          /\ \E id \in {SubSeq(resp'.req.pin, i, j) :
                          i, j \in 1..Len(resp'.req.pin)} :
               Stripped(resp'.req.pin, id) /\ StoredWith(id)]_vars

C11_Witness ==
    /\ Unlocked
    /\ resp.req.pin = <<" ", "S", "1">>
    /\ resp.body.spocId = <<"S", "1">>
    /\ spocTokens[resp.body.token].spocId = <<"S", "1">>

\* the pin is missing or empty
PinEmpty(pin) == pin = UndefinedChars \/ pin = <<>>

\* the pin is a string of white space only
PinBlank(pin) ==
    /\ pin # UndefinedChars
    /\ \A k \in 1..Len(pin) : pin[k] \in {" ", "\t"}

\* C12 as the specification states it: unlock fails only if the pin is
\* empty or missing, every other string gets a token, and a failed unlock
\* adds no entry to the token store.
C12_UnlockFailsOnlyOnEmpty ==
    [][resp'.op = "unlock"
       => /\ resp'.code # 200 <=> PinEmpty(resp'.req.pin)
          /\ resp'.code # 200 => UNCHANGED tokenVars]_vars

\* C12: unlock fails only if the pin is empty or missing (400) or is white
\* space only (401); every other string gets a token, the PIN one without
\* SPOC id and any other one as a SPOC id; a failed unlock adds no entry to
\* the token store.
C12_UnlockFailsOnlyOnBlank ==
    [][resp'.op = "unlock"
       => /\ resp'.code = 400 <=> PinEmpty(resp'.req.pin)
          /\ resp'.code = 401 <=> (PinBlank(resp'.req.pin)
                                   /\ ~PinEmpty(resp'.req.pin))
          /\ resp'.code \in {200, 400, 401}
          /\ resp'.code = 200 => resp'.body.token \in DOMAIN spocTokens'
          /\ resp'.code # 200 => UNCHANGED tokenVars]_vars

C12_Witness ==
    /\ resp.op = "unlock" /\ resp.code = 401
    /\ resp.req.pin = <<" ">>
    /\ spocTokens = EmptyMap

(***************************************************************************)
(* Properties of the events published by create, update and delete.        *)
(***************************************************************************)
\* a value of spocId or teamId that names a SPOC or a team
IsSet(v) == v \notin {Undefined, Null, ""}

\* the publications due for doc: payload to every connected socket under
\* the name all, to the sockets in room spoc:<spocId> under the name spoc
\* if doc has a spocId, and to those in room team:<teamId> under the name
\* team if it has a teamId
Notices(all, spoc, team, payload, doc) ==
    {[event |-> all, room |-> "*", payload |-> payload, to |-> connected]}
    \cup (IF IsSet(doc.spocId)
          THEN {[event |-> spoc, room |-> "spoc:" \o doc.spocId,
                 payload |-> payload,
                 to |-> {s \in connected :
                           ("spoc:" \o doc.spocId) \in rooms[s]}]}
          ELSE {})
    \cup (IF IsSet(doc.teamId)
          THEN {[event |-> team, room |-> "team:" \o doc.teamId,
                 payload |-> payload,
                 to |-> {s \in connected :
                           ("team:" \o doc.teamId) \in rooms[s]}]}
          ELSE {})

\* the events in the sequence p are exactly those of the set n, once each
Publishes(p, n) ==
    /\ {p[k] : k \in 1..Len(p)} = n
    /\ Len(p) = Cardinality(n)

\* C13: every successful create publishes the new document as
\* request:created to all connected clients, as request:created:forSpoc to
\* room spoc:<spocId> exactly when spocId is set and as
\* request:created:forTeam to room team:<teamId> exactly when teamId is
\* set; each payload is the document of the 201 response, id included.
C13_CreatePublishesDocument ==
    (resp.op = "create" /\ resp.code = 201)
    => /\ "_id" \in DOMAIN resp.body
       /\ Publishes(published,
                    Notices("request:created", "request:created:forSpoc",
                            "request:created:forTeam", resp.body, resp.body))

C13_Witness ==
    /\ resp.op = "create" /\ resp.code = 201
    /\ Len(published) = 3
    /\ published[2].event = "request:created:forSpoc"
    /\ published[2].to # {}
    /\ published[2].to # published[1].to
    /\ published[3].to = {}

\* C14: every successful update returns the document as reloaded from the
\* collection and publishes it as request:updated to all connected clients,
\* to room spoc:<spocId> if its spocId is set and to room team:<teamId> if
\* its teamId is set; each payload is the document returned to the caller.
C14_UpdateRepublishesDocument ==
    (resp.op = "update" /\ resp.code = 200)
    => /\ resp.body \in store
       /\ Publishes(published,
                    Notices("request:updated", "request:updated",
                            "request:updated", resp.body, resp.body))

C14_Witness ==
    /\ resp.op = "update" /\ resp.code = 200
    /\ resp.body.status = "done"
    /\ Len(published) = 3
    /\ published[2].to # {}
    /\ published[3].to # {}
    /\ published[3].to # published[1].to

\* a step publishes request:deleted only for the request a delete has just
\* removed, and with its id alone
DeletedOnlyIfRemoved ==
    \A k \in 1..Len(published') :
      published'[k].event = "request:deleted"
      => /\ resp'.op = "delete" /\ resp'.code = 204
         /\ published'[k].payload = [_id |-> resp'.req.id]
         /\ FindById(resp'.req.id) # {}
         /\ store' = store \ FindById(resp'.req.id)

\* C15 as the specification states it: every successful delete publishes
\* request:deleted with the id alone to all connected clients and to the
\* spoc and team rooms of the document as stored just before the deletion,
\* and no request:deleted is published for a document the delete did not
\* remove.
C15_DeleteNotifiesRoomsOfStoredDocument ==
    [][/\ (resp'.op = "delete" /\ resp'.code = 204)
          => \E d \in FindById(resp'.req.id) :
               Publishes(published',
                         Notices("request:deleted", "request:deleted",
                                 "request:deleted", [_id |-> resp'.req.id], d))
       /\ DeletedOnlyIfRemoved]_vars

\* C15: every successful delete publishes request:deleted with the id alone
\* to all connected clients and to the spoc and team rooms of the document
\* as the delete's lookup found it (an update applied between the lookup
\* and the removal does not redirect the notice), and no request:deleted is
\* published for a document the delete did not remove.
C15_DeleteNotifiesRoomsOfFoundDocument ==
    [][/\ \A h \in BagToSet(inflight) :
            (DeleteApply(h) /\ resp'.code = 204)
            => Publishes(published',
                         Notices("request:deleted", "request:deleted",
                                 "request:deleted", [_id |-> h.req.id], h.doc))
       /\ DeletedOnlyIfRemoved]_vars

C15_Witness ==
    /\ resp.op = "delete" /\ resp.code = 204
    /\ Len(published) = 3
    /\ published[3].room = "team:T1"
    /\ published[3].to # {}
    /\ published[1].payload = [_id |-> 1]
    /\ store = {}

(***************************************************************************)
(* Properties of the fields of a stored request.                           *)
(***************************************************************************)
\* C16 as the specification states it: in every reachable state the status
\* of every stored request is pending or done.
C16_StatusPendingOrDone ==
    \A d \in store : d.status \in {"pending", "done"}

\* C17: a request is stored with status pending whatever status its create
\* body carried, and the status of a stored request changes only in a step
\* that applies the updateOne of an update admitted by the gate, to the
\* status of that update's body: no create, list, delete, unlock or room
\* operation changes it.
C17_StatusChangesOnlyByUpdate ==
    [][/\ \A e \in store' :
            FindById(e._id) = {} => e.status = "pending"
       /\ \A d \in store, e \in store' :
            (e._id = d._id /\ e.status # d.status)
            => \E h \in Suspended("update", "updateOne") :
                 /\ UpdateWrite(h)
                 /\ h.req.id = d._id
                 /\ "status" \in DOMAIN h.req.body
                 /\ e.status = h.req.body.status
                 /\ (h.tok = NoToken \/ h.tok \in DOMAIN issued)]_vars

C17_Witness ==
    /\ resp.op = "create" /\ resp.code = 201
    /\ resp.req.status = "done"
    /\ resp.body.status = "pending"
    /\ resp.body \in store

\* C18 as the specification states it: the createdAt of a stored request
\* is, in every later state until the request is deleted, the value it was
\* created with, whatever authenticated updates are applied to it.
C18_CreatedAtImmutable ==
    [][\A d \in store, e \in store' :
         e._id = d._id => e.createdAt = d.createdAt]_vars

(***************************************************************************)
(* Properties of what a session may do, and of the validate call.          *)
(***************************************************************************)
\* C19: a live session token is accepted for the update and the delete of
\* any stored request, whatever SPOC id the token is bound to (or none) and
\* whatever the spocId and teamId of the request: the gate lets the request
\* through, the update is applied to the document and the delete removes
\* it.
C19_AnySessionMutatesAnyRequest ==
    [][/\ (AtGate' /\ SessionLive(PresentedToken(resp'.req)))
          => resp'.code # 403
       /\ \A h \in BagToSet(inflight) :
            (h.tok # NoToken /\ FindById(h.req.id) # {})
            => /\ UpdateWrite(h)
                  => /\ resp'.code = 0
                     /\ \A e \in FindById(h.req.id)' :
                          \A f \in DOMAIN h.req.body : e[f] = h.req.body[f]
               /\ DeleteApply(h)
                  => /\ resp'.code = 204
                     /\ FindById(h.req.id)' = {}]_vars

C19_Witness ==
    /\ resp.op = "update" /\ resp.code = 200
    /\ resp.body.spocId = "S1" /\ resp.body.teamId = "T1"
    /\ resp.body.status = "done"
    /\ spocTokens # EmptyMap
    /\ \A t \in DOMAIN spocTokens : spocTokens[t].spocId = <<"S", "2">>

\* C20 as the specification states it: GET /api/spoc/validate with a token
\* that is in the store and not expired answers ok, with the SPOC id bound
\* to the token if there is one.
C20_ValidateReportsSession ==
    [][(/\ resp'.op = "validate"
        /\ resp'.req.token \in DOMAIN spocTokens
        /\ now <= spocTokens[resp'.req.token].expiresAt)
       => /\ resp'.code = 200
          /\ resp'.body.ok
          /\ spocTokens[resp'.req.token].spocId # UndefinedChars
             => resp'.body.spocId = spocTokens[resp'.req.token].spocId]_vars

(***************************************************************************)
(* Properties of the health route and of startup.                          *)
(***************************************************************************)
\* C21 as the specification states it: GET /health needs no credential and
\* is always answered 200 with the liveness payload {ok: true, uptime, env},
\* in every configuration of the server, a served frontend included.
C21_HealthAnswersLiveness ==
    [][resp'.op = "health"
       => /\ resp'.code = 200
          /\ DOMAIN resp'.body = {"ok", "uptime", "env"}
          /\ resp'.body.ok]_vars

\* the connectDB calls (numbered by the i of connectDBWithRetry) that failed
FailedAttempts ==
    {i \in {connects[k].i : k \in 1 .. Len(connects)} :
        /\ \A k \in 1 .. Len(connects) :
              connects[k].i = i => ~connects[k].outcome.ok
        /\ ~(startup.pc = "tryConnect" /\ startup.i = i)}

\* C22: startup fails fast.  The process exits with failure at once when
\* the sanitized connection string is empty or has neither the mongodb://
\* nor the mongodb+srv:// scheme, and otherwise only after exactly 3 failed
\* connection attempts, which waits of 2000 ms and then 4000 ms separate
\* (none follows the last); it listens only after an attempt succeeded, and
\* no request handler runs while the requests collection is unset.
C22_StartupFailsFast ==
    /\ [](startup.pc = "exit(1)"
          => \/ /\ (MONGODB_URI = <<>>
                    \/ Head(MONGODB_URI) \notin {"mongodb://", "mongodb+srv://"})
                /\ connects = <<>>
             \/ /\ FailedAttempts = 1 .. 3
                /\ \A k \in 1 .. Len(connects) : ~connects[k].outcome.ok
                /\ startup.waits = <<2000, 4000>>)
    /\ []((startup.pc # "load"
           /\ (MONGODB_URI = <<>>
               \/ Head(MONGODB_URI) \notin {"mongodb://", "mongodb+srv://"}))
          => startup.pc = "exit(1)")
    /\ [](startup.pc \in {"tryConnect", "setTimeout"}
          => /\ startup.i \in 1 .. 3
             /\ FailedAttempts
                  = 1 .. (IF startup.pc = "tryConnect" THEN startup.i - 1
                          ELSE startup.i)
             /\ startup.waits = SubSeq(<<2000, 4000>>, 1, Cardinality(FailedAttempts)))
    /\ [][(startup.pc = "setTimeout" /\ startup'.pc # "setTimeout")
          => /\ startup'.pc = "tryConnect"
             /\ now >= startup.due
             /\ startup'.i = startup.i + 1]_vars
    /\ [][(startup.pc # "setTimeout" /\ startup'.pc = "setTimeout")
          => startup'.due = now + startup'.waits[Len(startup'.waits)]]_vars
    /\ [](Listening
          => /\ connects # <<>>
             /\ connects[Len(connects)].outcome.ok
             /\ requestsCollection = "requests")
    /\ []((resp.op # "none" \/ inflight # EmptyBag \/ connected # {})
          => requestsCollection = "requests")

C22_Witness ==
    /\ startup.pc = "exit(1)"
    /\ Len(connects) > 3
    /\ startup.waits = <<2000, 4000>>
    /\ now >= 6000

\* the error messages that name TLS or SSL
NamesTls(msg) ==
    \E k \in 1 .. Len(msg) : msg[k] \in {"SSL", "Tls", "tlsv1 alert"}

\* the tryConnect calls made so far, the pending one last
TryConnects ==
    [k \in 1 .. Len(connects) |->
        [i |-> connects[k].i, options |-> connects[k].options]]
    \o (IF startup.pc = "tryConnect"
        THEN <<[i |-> startup.i, options |-> startup.options]>>
        ELSE <<>>)

\* the secure tryConnect k failed with an error that names TLS
SecureFailedOnTls(k) ==
    /\ k \in 1 .. Len(connects)
    /\ connects[k].options = "baseOptions"
    /\ ~connects[k].outcome.ok
    /\ NamesTls(connects[k].outcome.message)

\* C24: within a connectDB call, a secure attempt that fails with an error
\* classified as TLS is followed by exactly one attempt with relaxed
\* validation and by no further attempt; a secure attempt that fails with
\* any other error is followed by none; and relaxed options are used only
\* after such a TLS failure of the secure attempt of the same call or when
\* DEBUG_MONGO_TLS is set.
C24_TlsFailureRetriesOnceRelaxed ==
    /\ [](\A k \in 1 .. Len(connects) :
            SecureFailedOnTls(k)
            => /\ Len(TryConnects) > k
               /\ TryConnects[k + 1] = [i |-> connects[k].i,
                                        options |-> "fallbackOptions"]
               /\ \A m \in 1 .. Len(TryConnects) :
                    TryConnects[m].i = connects[k].i => m \in {k, k + 1})
    /\ [](\A k \in 1 .. Len(connects) :
            (/\ connects[k].options = "baseOptions"
             /\ ~connects[k].outcome.ok
             /\ ~NamesTls(connects[k].outcome.message))
            => \A m \in 1 .. Len(TryConnects) :
                 TryConnects[m].i = connects[k].i => m = k)
    /\ [](\A m \in 1 .. Len(TryConnects) :
            TryConnects[m].options = "fallbackOptions"
            => \/ config.debugMongoTls = "True"
               \/ /\ SecureFailedOnTls(m - 1)
                  /\ connects[m - 1].i = TryConnects[m].i)

C24_Witness ==
    /\ Listening
    /\ config.debugMongoTls = Undefined
    /\ Len(connects) = 4
    /\ connects[1].outcome = Failed(<<"connect", "ECONNREFUSED">>)
    /\ connects[2].i = 2 /\ connects[2].options = "baseOptions"
    /\ connects[2].outcome = Failed(<<"Tls", "handshake", "timed out">>)
    /\ connects[3].i = 2 /\ connects[3].options = "fallbackOptions"
    /\ ~connects[3].outcome.ok
    /\ connects[4].i = 3 /\ connects[4].options = "baseOptions"

(***************************************************************************)
(* Properties of concurrent updates.                                       *)
(***************************************************************************)
\* C23: concurrent updates of one document are not detected.  Every update
\* whose updateOne finds the document is applied, whatever other update of
\* the document is between its write and its reload, and sets each field of
\* its body to the value it carries; it goes on to answer 200; and nothing
\* but the updateOne of an update changes a stored document.  So once two
\* updates have completed, a field both set holds the value of the one the
\* store applied last.
C23_LastWriteWins ==
    [][/\ \A h \in Suspended("update", "updateOne") :
            (UpdateWrite(h) /\ FindById(h.req.id) # {})
            => /\ resp'.code = 0
               /\ FindById(h.req.id)' # {}
               /\ \A e \in FindById(h.req.id)' :
                    \A f \in DOMAIN h.req.body : e[f] = h.req.body[f]
       /\ \A h \in Suspended("update", "findOne") :
            (UpdateReload(h) /\ FindById(h.req.id) # {})
            => /\ resp'.code = 200
               /\ resp'.body \in store
       /\ \A d \in store, e \in store' :
            (e._id = d._id /\ e # d)
            => \E h \in Suspended("update", "updateOne") :
                 UpdateWrite(h) /\ h.req.id = d._id]_vars

C23_Witness ==
    /\ resp.op = "update" /\ resp.code = 200
    /\ resp.req.body.status = "done"
    /\ resp.body.status = "archived"
    /\ \E h \in Suspended("update", "findOne") :
         /\ h.req.id = resp.req.id
         /\ h.req.body.status = "archived"
         /\ h.wrote

(***************************************************************************)
(* Properties of the life of a token in the store.                         *)
(***************************************************************************)
\* C25: every token in the store is eventually deleted from it.  Its timer
\* is due 5 seconds after its expiry instant and removes it; a validation
\* lookup of an entry past its expiry removes it in the same step and the
\* request is refused; and while timers fire when due, the store holds no
\* entry more than 5 seconds past its expiry.
C25_TokensAreEvicted ==
    /\ \A t \in Tokens :
         (t \in DOMAIN spocTokens) ~> (t \notin DOMAIN spocTokens)
    /\ [](\A t \in DOMAIN timers : timers[t] = issued[t] + 5000)
    /\ [](\A t \in DOMAIN spocTokens :
            /\ spocTokens[t].expiresAt = issued[t]
            /\ now <= spocTokens[t].expiresAt + 5000
            /\ now < spocTokens[t].expiresAt + 5000 => t \in DOMAIN timers)
    /\ [][\A t \in DOMAIN timers :
            (t \notin DOMAIN timers')
            => /\ now >= issued[t] + 5000
               /\ t \notin DOMAIN spocTokens']_vars
    /\ [][(/\ AtGate'
           /\ PresentedToken(resp'.req) \in DOMAIN spocTokens
           /\ now > spocTokens[PresentedToken(resp'.req)].expiresAt)
          => /\ PresentedToken(resp'.req) \notin DOMAIN spocTokens'
             /\ resp'.code = 403]_vars

C25_Witness ==
    /\ issued # EmptyMap
    /\ spocTokens = EmptyMap
    /\ timers = EmptyMap
    /\ now = issued[1] + 5000
    /\ resp.op = "none"

(***************************************************************************)
(* Properties of the pages of the client.                                  *)
(***************************************************************************)
\* the tokens that a page removed from its sessionStorage on Logout
Discarded == UNION {pages[s].discarded : s \in Sockets}

\* C26: Logout discards the token on the client only.  A Logout leaves the
\* token store as it is, no step of a client or of the server removes an
\* entry from the store before its expiry instant, and a token that a page
\* discarded on Logout still passes the gate of an update or a delete that
\* presents it up to its expiry instant.
C26_LogoutRevokesNothing ==
    [][/\ \A s \in Sockets : Logout(s) => UNCHANGED tokenVars
       /\ \A t \in DOMAIN spocTokens :
            t \notin DOMAIN spocTokens' => now > spocTokens[t].expiresAt
       /\ (/\ AtGate'
           /\ PresentedToken(resp'.req) \in Discarded
           /\ now <= issued[PresentedToken(resp'.req)])
          => /\ resp'.code = 0
             /\ PresentedToken(resp'.req) \in DOMAIN spocTokens']_vars

C26_Witness ==
    /\ AtGate
    /\ resp.op = "delete" /\ resp.code = 0
    /\ resp.req.token \in Discarded
    /\ now = issued[resp.req.token]
    /\ \A s \in Sockets : pages[s].token = NoToken

(***************************************************************************)
(* Properties of room membership.                                          *)
(***************************************************************************)
\* C27: membership is added and removed per connection by its own signals.
\* A team:join (spoc:join) with a non-empty string id makes the connection
\* a member of team:<id> (spoc:<id>) and changes nothing else; a join with
\* an empty or non-string id changes nothing; a leave removes the
\* connection from the room its payload names, read as text, and changes
\* nothing else (nothing at all when the room was not joined); a repeated
\* join changes nothing; no signal touches the rooms of another connection;
\* and the rooms of a connection change in no other step while it is open.
C27_MembershipFollowsOwnSignals ==
    [][\A s \in Sockets :
         /\ \A id \in TeamPayloads :
              /\ TeamJoin(s, id)
                 => rooms' = [rooms EXCEPT ![s] = IF id = "T1"
                                                  THEN @ \cup {"team:T1"}
                                                  ELSE @]
              /\ TeamLeave(s, id)
                 => rooms' = [rooms EXCEPT ![s] = IF id \in {"T1", ArrayOf("T1")}
                                                  THEN @ \ {"team:T1"}
                                                  ELSE @]
         /\ \A id \in SpocPayloads :
              /\ SpocJoin(s, id)
                 => rooms' = [rooms EXCEPT ![s] = IF id = "S1"
                                                  THEN @ \cup {"spoc:S1"}
                                                  ELSE @]
              /\ SpocLeave(s, id)
                 => rooms' = [rooms EXCEPT ![s] = IF id \in {"S1", ArrayOf("S1")}
                                                  THEN @ \ {"spoc:S1"}
                                                  ELSE @]
         /\ (rooms'[s] # rooms[s] /\ s \in connected')
            => \/ \E id \in TeamPayloads : TeamJoin(s, id) \/ TeamLeave(s, id)
               \/ \E id \in SpocPayloads : SpocJoin(s, id) \/ SpocLeave(s, id)]_vars

C27_Witness ==
    /\ connected = Sockets
    /\ rooms["s1"] = {"team:T1", "spoc:S1"}
    /\ rooms["s2"] = {"spoc:S1"}
    /\ resp.op = "create" /\ resp.code = 201

(***************************************************************************)
(* Properties of the pages' connections.                                   *)
(***************************************************************************)
\* the rooms a page has asked to join and not asked to leave: the team of
\* the requester form, the SPOC and the team of an unlocked dashboard
PageRooms(page) ==
    (IF page.view = "requester" /\ Truthy(page.form.teamId)
     THEN {[signal |-> "team:join", id |-> page.form.teamId]} ELSE {})
    \cup (IF page.spoc # NullDoc /\ Truthy(page.spoc.id)
          THEN {[signal |-> "spoc:join", id |-> page.spoc.id]} ELSE {})
    \cup (IF page.team # NullDoc
          THEN {[signal |-> "team:join", id |-> page.team.id]} ELSE {})

\* C28 as the specification states it: when the connection of a page is
\* established again, the page emits the join signals of the team and SPOC
\* rooms it had joined, so every such join is among the signals it has to
\* send once the connection is up.
C28_ClientRejoinsAfterReconnect ==
    [][\A s \in Sockets :
         (s \notin connected /\ s \in connected')
         => \A m \in PageRooms(pages[s]) :
              \E k \in 1 .. Len(pages'[s].sendBuffer) :
                 pages'[s].sendBuffer[k] = m]_vars

(***************************************************************************)
(* Properties of the payloads of update events.                            *)
(***************************************************************************)
\* C29 as the specification states it: whatever the interleaving of the
\* update and delete handlers of one id, every request:updated event that
\* is published carries a request document with an id, never null.
C29_UpdatedEventsCarryDocument ==
    [][\A k \in 1 .. Len(published') :
         published'[k].event = "request:updated"
         => /\ published'[k].payload # NullDoc
            /\ "_id" \in DOMAIN published'[k].payload]_vars

(***************************************************************************)
(* Properties of where a session token may appear.                         *)
(***************************************************************************)
\* C30 as the specification states it: no stored request and no payload of
\* a request:updated event holds the value of a session token, also after
\* updates that present the token in the spocToken field of their body.
C30_TokenNeverStoredOrPublished ==
    /\ \A d \in store :
         "spocToken" \in DOMAIN d => d.spocToken \notin DOMAIN issued
    /\ \A k \in 1 .. Len(published) :
         (/\ published[k].event = "request:updated"
          /\ "spocToken" \in DOMAIN published[k].payload)
         => published[k].payload.spocToken \notin DOMAIN issued

(***************************************************************************)
(* Properties of concurrent deletes and of error responses.                *)
(***************************************************************************)
\* the global request:deleted events among the events p
GlobalDeleted(p) ==
    {k \in 1 .. Len(p) : p[k].event = "request:deleted" /\ p[k].room = "*"}

\* C31: of the authenticated deletes of one stored id that run together,
\* the one whose deleteOne removes the document answers 204 and publishes
\* the request:deleted notices, with one global event that carries the id;
\* a delete that finds the document gone, at its lookup or at its
\* deleteOne, answers 404, changes nothing and publishes nothing; a document
\* leaves the collection only in a step that answers a delete with 204, and
\* its id never comes back, so no second delete of it can answer 204.
C31_OneDeleteWins ==
    [][/\ (resp'.op = "delete" /\ resp'.code = 204)
          => /\ FindById(resp'.req.id) # {}
             /\ \A e \in store' : e._id # resp'.req.id
             /\ Cardinality(GlobalDeleted(published')) = 1
             /\ \A k \in GlobalDeleted(published') :
                  published'[k].payload = [_id |-> resp'.req.id]
       /\ (resp'.op = "delete" /\ resp'.code = 404)
          => /\ FindById(resp'.req.id) = {}
             /\ store' = store
             /\ published' = <<>>
       /\ (\E d \in store : \A e \in store' : e._id # d._id)
          => resp'.op = "delete" /\ resp'.code = 204
       /\ \A i \in 1 .. MaxRequests : Gone(i) => Gone(i)']_vars

\* a delete has answered 204 while another delete of the same id, which
\* found the document too, is at its deleteOne
C31_Witness ==
    /\ resp.op = "delete" /\ resp.code = 204
    /\ Len(published) >= 1
    /\ \E h \in Suspended("delete", "deleteOne") : h.req.id = resp.req.id

\* C32 as the specification states it: a create, update or delete that is
\* answered 400, 403, 404 or 500 has changed no stored document in any of
\* its steps and publishes no event, whatever ran beside it.
C32_ErrorsAreAtomic ==
    [][(/\ resp'.op \in {"create", "update", "delete"}
        /\ resp'.code \in {400, 403, 404, 500})
       => /\ ~resp'.wrote
          /\ store' = store
          /\ published' = <<>>]_vars

(***************************************************************************)
(* Properties of the request lists of the pages.                           *)
(***************************************************************************)
\* no two entries of the list have the same id
DistinctIds(list) ==
    \A i, j \in 1 .. Len(list) : i # j => list[i]._id # list[j]._id

\* C33 as the specification states it: the request list of a requester
\* page never holds two entries with the same id; a request the page
\* submitted is in the list once when the 201 response and the
\* request:created event of it have both been handled.
C33_RequesterListHasNoDuplicates ==
    \A s \in Sockets :
      pages[s].view = "requester" => DistinctIds(pages[s].requests)

\* C34 as the specification states it: the request list of a SPOC page
\* never holds two entries with the same id; a page that joined its
\* spoc:<spocId> room and its team:<teamId> room shows a new request of
\* that SPOC and team once.
C34_SpocListHasNoDuplicates ==
    \A s \in Sockets :
      pages[s].view = "spoc" => DistinctIds(pages[s].requests)

\* C35 as the specification states it: on a requester page that has been
\* connected since it was opened, once the response of the initial
\* GET /api/requests has been applied and every event that reached the page
\* has been handled, the list holds every request stored on the server.
C35_NoRequestLostToFetchRace ==
    \A s \in connected :
      (/\ pages[s].view = "requester"
       /\ ~pages[s].fetching
       /\ pages[s].http = <<>>
       /\ pages[s].inbox = <<>>)
      => \A d \in store :
           \E k \in 1 .. Len(pages[s].requests) : pages[s].requests[k] = d

=============================================================================
